---- MODULE Spec2Model ----
(***************************************************************************)
(* A model of the Psion software indexer: the nested-container walker      *)
(* (tools/containers.py), the release builder and the grouper              *)
(* (tools/indexer.py).                                                     *)
(*                                                                         *)
(* Strings that the code inspects character by character (file names,      *)
(* version strings) are sequences of one-character strings; a path is the  *)
(* sequence of its components.                                             *)
(***************************************************************************)
EXTENDS Integers, Sequences, FiniteSets, TLC

(***************************************************************************)
(* Bounds of the model.                                                    *)
(***************************************************************************)
\* Largest number of files a source yields to the indexer.
MaxAssets == 3
MaxRun == 2
MaxRuns == 2
MaxOverlays == 2
MaxPrograms == 2
MaxChain == 3
\* Longest icon list handed to select_icon_dict.
MaxIcons == 3
\* Largest number of entries of the walked directory.
MaxTop == 2
\* Deepest nesting of a container inside zip files.
MaxDepth == 2
\* Largest number of path segments of a configured url.
MaxSegments == 3
\* Largest number of commands main runs.
MaxCommands == 1
\* Largest number of pieces of a looked up file name.
MaxPieces == 2

(***************************************************************************)
(* Strings and paths.                                                      *)
(***************************************************************************)
Upper == <<"A", "B", "C", "D", "E", "F", "G", "H", "I", "J", "K", "L", "M",
           "N", "O", "P", "Q", "R", "S", "T", "U", "V", "W", "X", "Y", "Z">>
Lowercase == <<"a", "b", "c", "d", "e", "f", "g", "h", "i", "j", "k", "l", "m",
               "n", "o", "p", "q", "r", "s", "t", "u", "v", "w", "x", "y", "z">>

\* str.lower(), character by character.
lower(s) ==
    [i \in 1..Len(s) |->
        IF \E k \in 1..26 : Upper[k] = s[i]
        THEN Lowercase[CHOOSE k \in 1..26 : Upper[k] = s[i]]
        ELSE s[i]]

\* str.endswith / str.startswith.
endswith(s, t) ==
    /\ Len(s) >= Len(t)
    /\ SubSeq(s, Len(s) - Len(t) + 1, Len(s)) = t

startswith(s, t) ==
    /\ Len(s) >= Len(t)
    /\ SubSeq(s, 1, Len(t)) = t

IsPrefix(p, q) == startswith(q, p)

\* The text of an absolute path: "/" before every component.
RECURSIVE PathStr(_)
PathStr(p) ==
    IF p = <<>> THEN <<>>
    ELSE <<"/">> \o Head(p) \o PathStr(Tail(p))

\* Length of the longest common prefix of two paths.
RECURSIVE CommonLen(_, _)
CommonLen(p, q) ==
    IF p = <<>> \/ q = <<>> \/ Head(p) # Head(q) THEN 0
    ELSE 1 + CommonLen(Tail(p), Tail(q))

DotDot == <<".", ".">>
CurDir == <<".">>

\* os.path.relpath(path, start) on absolute paths: one ".." for every
\* component of start outside the common prefix, then the rest of path.
relpath(path, start) ==
    LET i == CommonLen(path, start)
        ups == [k \in 1..(Len(start) - i) |-> DotDot]
        rest == SubSeq(path, i + 1, Len(path))
    IN  IF ups \o rest = <<>> THEN <<CurDir>> ELSE ups \o rest

(***************************************************************************)
(* The extraction registry.                                                *)
(***************************************************************************)
Ext7z == <<".", "7", "z">>
ExtCab == <<".", "c", "a", "b">>
ExtIma == <<".", "i", "m", "a">>
ExtIso == <<".", "i", "s", "o">>
ExtTarGz == <<".", "t", "a", "r", ".", "g", "z">>
ExtTar == <<".", "t", "a", "r">>
ExtTgz == <<".", "t", "g", "z">>
ExtZip == <<".", "z", "i", "p">>
ExtVhd == <<".", "v", "h", "d">>

\* The dict with ".gz" registered as well, ahead of ".tar.gz".
CONTAINER_MAPPING_gz ==
    << <<Ext7z, "extract_7z">>,
       <<ExtCab, "extract_7z">>,
       <<ExtIma, "extract_7z">>,
       <<ExtIso, "extract_7z">>,
       <<<<".", "g", "z">>, "extract_gz">>,
       <<ExtTarGz, "extract_tar_gz">>,
       <<ExtTar, "extract_tar">>,
       <<ExtTgz, "extract_tar_gz">>,
       <<ExtZip, "extract_zip">>,
       <<ExtVhd, "extract_7z">> >>

\* The dict, in insertion order, which is the order .items() iterates in.
CONTAINER_MAPPING ==
    << <<Ext7z, "extract_7z">>,
       <<ExtCab, "extract_7z">>,
       <<ExtIma, "extract_7z">>,
       <<ExtIso, "extract_7z">>,
       <<ExtTarGz, "extract_tar_gz">>,
       <<ExtTar, "extract_tar">>,
       <<ExtTgz, "extract_tar_gz">>,
       <<ExtZip, "extract_zip">>,
       <<ExtVhd, "extract_7z">> >>

\* The method of the first registered suffix the lower-cased path ends
\* with, "None" when there is none.
get_extraction_method(path) ==
    LET s == lower(PathStr(path))
        hits == {i \in 1..Len(CONTAINER_MAPPING) : endswith(s, CONTAINER_MAPPING[i][1])}
    IN  IF hits = {} THEN "None"
        ELSE CONTAINER_MAPPING[CHOOSE i \in hits : \A j \in hits : i <= j][2]

(***************************************************************************)
(* The files the walker meets.  The bytes of a file are a record: a plain  *)
(* file (an installer, an application, anything else) or an archive.  An   *)
(* archive of depth k > 0 is a sound zip file that holds, between two      *)
(* plain files, an archive of depth k - 1; an archive of depth 0 has the   *)
(* suffix and the defect of its shape.                                     *)
(***************************************************************************)
Digits == <<"0", "1", "2", "3", "4", "5", "6", "7", "8", "9">>
Digit(n) == Digits[n + 1]

\* The shapes of innermost archives: a tag (first letter of the file
\* name), the suffix of the file name and what is wrong with the bytes.
Shapes ==
    << [tag |-> "g", ext |-> ExtZip, fault |-> "none"],
       [tag |-> "b", ext |-> <<".", "Z", "I", "P">>, fault |-> "corrupt"],
       [tag |-> "u", ext |-> ExtZip, fault |-> "unsupported"],
       [tag |-> "e", ext |-> ExtZip, fault |-> "encrypted"],
       [tag |-> "s", ext |-> ExtZip, fault |-> "badstream"],
       [tag |-> "t", ext |-> ExtZip, fault |-> "truncated"],
       [tag |-> "r", ext |-> ExtTar, fault |-> "corrupt"],
       [tag |-> "z", ext |-> ExtTarGz, fault |-> "corrupt"],
       [tag |-> "i", ext |-> ExtIso, fault |-> "ioerror"],
       [tag |-> "c", ext |-> ExtCab, fault |-> "none"] >>

Plain(id) == [kind |-> "plain", id |-> id, depth |-> 0]
Arc(shape, k) == [kind |-> "arc", id |-> Shapes[shape].tag, depth |-> k]

\* The shape of an archive.
ShapeOf(data) == CHOOSE i \in 1..Len(Shapes) : Shapes[i].tag = data.id

\* What is wrong with the bytes of an archive, as its extraction sees it.
FaultOf(data) == IF data.depth > 0 THEN "none" ELSE Shapes[ShapeOf(data)].fault

ArcName(data) ==
    <<Shapes[ShapeOf(data)].tag, Digit(data.depth)>>
        \o (IF data.depth > 0 THEN ExtZip ELSE Shapes[ShapeOf(data)].ext)

NameASis == <<"a", ".", "s", "i", "s">>
NameBSis == <<"b", ".", "s", "i", "s">>
NameXApp == <<"x", ".", "a", "p", "p">>
NameRTxt == <<"r", ".", "t", "x", "t">>
NameFork == <<".", "_", "r">>
NameD == <<"d">>

Entry(rel, data) == [rel |-> rel, data |-> data]

\* The members of a sound archive, in the order a directory listing of
\* the extracted tree gives them.
Members(data) ==
    IF data.depth > 0
    THEN << Entry(<<NameASis>>, Plain("sisA")),
            Entry(<<ArcName(Arc(ShapeOf(data), data.depth - 1))>>,
                  Arc(ShapeOf(data), data.depth - 1)),
            Entry(<<NameD, NameXApp>>, Plain("appX")) >>
    ELSE << Entry(<<NameBSis>>, Plain("sisB")),
            Entry(<<NameD, NameFork>>, Plain("fork")),
            Entry(<<NameD, NameRTxt>>, Plain("text")) >>

(***************************************************************************)
(* The extraction procedures.  Each returns the exception it raises        *)
(* ("none" when it extracts).  zipfile raises BadZipFile, NotImplemented-  *)
(* Error, RuntimeError and zlib.error for their defects and EOFError for a *)
(* member whose data ends early; tarfile raises ReadError; the external    *)
(* tools end with a non-zero status.                                       *)
(***************************************************************************)
extract_zip(source) ==
    CASE FaultOf(source) = "none" -> "none"
      [] FaultOf(source) = "corrupt" -> "BadZipFile"
      [] FaultOf(source) = "unsupported" -> "NotImplementedError"
      [] FaultOf(source) = "encrypted" -> "RuntimeError"
      [] FaultOf(source) = "badstream" -> "zlib.error"
      [] FaultOf(source) = "truncated" -> "EOFError"
      [] OTHER -> "OSError"

extract_tar(source) ==
    CASE FaultOf(source) = "none" -> "none"
      [] FaultOf(source) = "ioerror" -> "OSError"
      [] OTHER -> "ReadError"

extract_tar_gz(source) ==
    CASE FaultOf(source) = "none" -> "none"
      [] FaultOf(source) = "ioerror" -> "OSError"
      [] OTHER -> "CalledProcessError"

extract_7z(source) ==
    CASE FaultOf(source) = "none" -> "none"
      [] FaultOf(source) = "ioerror" -> "OSError"
      [] OTHER -> "CalledProcessError"

\* self.method(self.path, ...): the call through the registry's value.
CallMethod(method, source) ==
    CASE method = "extract_zip" -> extract_zip(source)
      [] method = "extract_tar" -> extract_tar(source)
      [] method = "extract_tar_gz" -> extract_tar_gz(source)
      [] OTHER -> extract_7z(source)

\* The exceptions walk catches around its with statement.
WalkCaught ==
    {"NotImplementedError", "BadZipFile", "OSError", "RuntimeError",
     "ReadError", "zlib.error", "CalledProcessError"}

(***************************************************************************)
(* The state.                                                              *)
(***************************************************************************)
VARIABLES
    fs,        \* the file trees on disk: root directory -> its entries
    cwd,       \* the working directory of the process
    stack,     \* the live frames of the recursive generator walk
    status,    \* "running", "suspended" (at a yield), "raising", "done", "raised"
    yielded,   \* the (path, reference) pairs walk has yielded, in order
    warnings,  \* the paths logged by walk's logging.warning
    ntmp,      \* the number of scratch directories made so far
    error      \* the exception that is propagating or has ended the walk

walkVars == <<fs, cwd, stack, status, yielded, warnings, ntmp, error>>

VARIABLES
    assets,            \* the (file, reference) pairs the source has yet to yield
    imported,          \* the pairs import_source has taken from the source, in order
    apps,              \* the releases import_source has built, in order
    files_directory,   \* the files store: the hashes staged in it
    errors_directory,  \* the error channel: hash -> the error text stored with it
    releases_json,     \* the releases index index writes, None before
    programs,          \* the Program list group builds
    summary,           \* the Summary group builds, None before
    group_index,       \* the search index group builds
    ipc                \* "index", "indexed", "grouped", or "idle"

indexVars == <<assets, imported, apps, files_directory, errors_directory, releases_json,
               programs, summary, group_index, ipc>>

VARIABLES
    icons,             \* the icon list handed to select_icon_dict
    icon               \* whether select_icon_dict has returned, and what

iconVars == <<icons, icon>>

VARIABLES
    overlay_directories,  \* library.overlay_directories: what each directory holds
    output_directory,     \* what overlay has left under library.output_directory
    overlay_runs          \* how many times overlay has run, and how the last run ended

overlayVars == <<overlay_directories, output_directory, overlay_runs>>

VARIABLES
    asset_source,      \* the source whose assets are read, None before
    raw_reference,     \* the reference walk yielded to the source's assets
    resolved,          \* what resolve_reference returned, None before
    published,         \* the dicts index writes for the file of the reference, None before
    configured_url,    \* the url of the source in the library's configuration
    created,           \* how create_source ended for it, None before
    commands           \* the commands main has run, in order

sourceVars == <<asset_source, raw_reference, resolved, published,
                configured_url, created, commands>>

VARIABLES
    lookup_path,       \* the path get_extraction_method is called with
    looked_up          \* what get_extraction_method returned, None before

registryVars == <<lookup_path, looked_up>>

None == <<>>
Some(x) == <<x>>

\* model.ReferenceItem(name=..., url=...).
ReferenceItem(name, url) == [name |-> name, url |-> url]

NameLib == <<"l", "i", "b">>
NameItem == <<"i", "t", "e", "m">>
NameFiles == <<"f", "i", "l", "e", "s">>
NameTmp == <<"t", "m", "p">>
NameHome == <<"h", "o", "m", "e">>

\* The source's item directory, the directory it walks and the directory
\* the indexer is started in.
ItemDirectory == <<NameLib, NameItem>>
SourcePath == ItemDirectory \o <<NameFiles>>
StartDirectory == <<NameHome>>

\* tempfile.TemporaryDirectory().name: a fresh directory under /tmp.
TemporaryDirectory(n) == <<NameTmp, <<"t", Digit(n \div 10), Digit(n % 10)>> >>

\* The roots whose tree holds path, and the entry of a file path.
RootsOf(path) == {r \in DOMAIN fs : IsPrefix(r, path)}

exists(path) ==
    \E r \in RootsOf(path) :
        \/ path = r
        \/ \E i \in 1..Len(fs[r]) : IsPrefix(path, r \o fs[r][i].rel)

isdir(path) ==
    \E r \in RootsOf(path) :
        \/ path = r
        \/ \E i \in 1..Len(fs[r]) :
            IsPrefix(path, r \o fs[r][i].rel) /\ path # r \o fs[r][i].rel

\* The bytes of the file at path.
DataAt(path) ==
    LET r == CHOOSE r \in RootsOf(path) : \E i \in 1..Len(fs[r]) : r \o fs[r][i].rel = path
        i == CHOOSE i \in 1..Len(fs[r]) : r \o fs[r][i].rel = path
    IN  fs[r][i].data

\* The sequence s without its repetitions, first occurrences kept.
RECURSIVE Distinct(_)
Distinct(s) ==
    IF s = <<>> THEN <<>>
    ELSE LET h == Head(s)
         IN  <<h>> \o Distinct(SelectSeq(Tail(s), LAMBDA x : x # h))

RECURSIVE Flatten(_)
Flatten(ss) == IF ss = <<>> THEN <<>> ELSE Head(ss) \o Flatten(Tail(ss))

\* os.walk(top) over the entries of one root: the files of a directory,
\* then its subdirectories in turn; rel is the directory's path in the root.
RECURSIVE OsWalk(_, _, _)
OsWalk(root, entries, rel) ==
    LET n == Len(rel)
        under == SelectSeq(entries, LAMBDA e : IsPrefix(rel, e.rel) /\ Len(e.rel) > n)
        files == SelectSeq(under, LAMBDA e : Len(e.rel) = n + 1)
        deeper == SelectSeq(under, LAMBDA e : Len(e.rel) > n + 1)
        dirs == Distinct([k \in 1..Len(deeper) |-> deeper[k].rel[n + 1]])
    IN  [k \in 1..Len(files) |-> root \o files[k].rel]
            \o Flatten([k \in 1..Len(dirs) |-> OsWalk(root, entries, rel \o <<dirs[k]>>)])

basename(path) == path[Len(path)]

\* The paths `a` the directory branch of walk recurses into, in order:
\* every file under path that is no resource fork.
DirectoryFiles(path) ==
    LET r == CHOOSE r \in RootsOf(path) : TRUE
        all == OsWalk(r, fs[r], SubSeq(path, Len(r) + 1, Len(path)))
    IN  SelectSeq(all, LAMBDA a : ~startswith(basename(a), <<".", "_">>))

(***************************************************************************)
(* Frames of the generator.  "walk": a call that has not run yet; "loop":  *)
(* the directory branch, with the files still to visit; "with": the file   *)
(* branch inside its with statement, waiting for the inner generator;      *)
(* "yield": the file branch at its yield.                                  *)
(***************************************************************************)
Frame(op, path, reference, relative_to, todo, pwd, tmp) ==
    [op |-> op, path |-> path, reference |-> reference, relative_to |-> relative_to,
     todo |-> todo, pwd |-> pwd, tmp |-> tmp]

Call(path, reference, relative_to) ==
    Frame("walk", path, reference, relative_to, <<>>, <<>>, <<>>)

Top == stack[Len(stack)]
Pop == SubSeq(stack, 1, Len(stack) - 1)

\* The status once the frame on top has returned.
Returned == IF Len(stack) = 1 THEN "done" ELSE "running"

(***************************************************************************)
(* Extractor: the context manager around one extraction.                   *)
(***************************************************************************)
\* Extractor_enter without the cleanup of its except clause.
Extractor_enter_leaks(path, method) ==
    LET temporary_directory == TemporaryDirectory(ntmp)
        exc == CallMethod(method, DataAt(path))
    IN  /\ ntmp' = ntmp + 1
        /\ IF exc = "none"
           THEN /\ cwd' = temporary_directory
                /\ fs' = fs @@ (temporary_directory :> Members(DataAt(path)))
           ELSE /\ cwd' = cwd
                /\ fs' = fs @@ (temporary_directory :> <<>>)

\* __enter__: remember the working directory, make the scratch directory,
\* change into it and extract; on any exception change back, remove the
\* scratch directory and raise again.
Extractor_enter(path, method) ==
    LET pwd == cwd
        temporary_directory == TemporaryDirectory(ntmp)
        exc == CallMethod(method, DataAt(path))
    IN  /\ ntmp' = ntmp + 1
        /\ IF exc = "none"
           THEN /\ cwd' = temporary_directory
                /\ fs' = fs @@ (temporary_directory :> Members(DataAt(path)))
           ELSE /\ cwd' = pwd
                /\ fs' = fs

\* Extractor_exit without the os.chdir.
Extractor_exit_stays(frame) ==
    /\ cwd' = cwd
    /\ fs' = [r \in DOMAIN fs \ {frame.tmp} |-> fs[r]]

\* __exit__: change back and remove the scratch directory.
Extractor_exit(frame) ==
    /\ cwd' = frame.pwd
    /\ fs' = [r \in DOMAIN fs \ {frame.tmp} |-> fs[r]]

(***************************************************************************)
(* walk, one action for every stretch of it between two suspensions or     *)
(* calls.                                                                  *)
(***************************************************************************)
\* The directory branch: list the files below the directory.
WalkDirectory ==
    /\ status = "running"
    /\ Top.op = "walk"
    /\ isdir(Top.path)
    /\ stack' = Pop \o <<Frame("loop", Top.path, Top.reference, Top.relative_to,
                               DirectoryFiles(Top.path), <<>>, <<>>)>>
    /\ UNCHANGED <<fs, cwd, status, yielded, warnings, ntmp, error>>
    /\ UNCHANGED <<indexVars, iconVars, overlayVars, sourceVars, registryVars>>

\* The directory branch: recurse into the next file, with the same
\* reference and the same relative_to.
WalkNextFile ==
    /\ status = "running"
    /\ Top.op = "loop"
    /\ Top.todo # <<>>
    /\ stack' = Pop \o <<[Top EXCEPT !.todo = Tail(@)],
                         Call(Head(Top.todo), Top.reference, Top.relative_to)>>
    /\ UNCHANGED <<fs, cwd, status, yielded, warnings, ntmp, error>>
    /\ UNCHANGED <<indexVars, iconVars, overlayVars, sourceVars, registryVars>>

\* The directory branch: no file is left, the generator is exhausted.
WalkDirectoryDone ==
    /\ status = "running"
    /\ Top.op = "loop"
    /\ Top.todo = <<>>
    /\ stack' = Pop
    /\ status' = Returned
    /\ UNCHANGED <<fs, cwd, yielded, warnings, ntmp, error>>
    /\ UNCHANGED <<indexVars, iconVars, overlayVars, sourceVars, registryVars>>

\* WalkLeaf that ends the innermost open with statement as it yields: the
\* scratch directory is gone before the consumer has the file.
WalkLeaf_closes ==
    /\ status = "running"
    /\ Top.op = "walk"
    /\ ~isdir(Top.path)
    /\ get_extraction_method(Top.path) = "None"
    /\ LET reference_item == ReferenceItem(relpath(Top.path, Top.relative_to), None)
       IN  yielded' = Append(yielded, <<Top.path, Top.reference \o <<reference_item>>>>)
    /\ stack' = Pop \o <<[Top EXCEPT !.op = "yield"]>>
    /\ status' = "suspended"
    /\ LET open == SelectSeq(stack, LAMBDA f : f.op = "with")
       IN  IF open = <<>> THEN UNCHANGED <<fs, cwd>>
           ELSE /\ cwd' = open[Len(open)].pwd
                /\ fs' = [r \in DOMAIN fs \ {open[Len(open)].tmp} |-> fs[r]]
    /\ UNCHANGED <<warnings, ntmp, error>>
    /\ UNCHANGED <<indexVars, iconVars, overlayVars, sourceVars, registryVars>>

\* The file branch, no extraction method: yield the file with the
\* reference extended by its own item.
WalkLeaf ==
    /\ status = "running"
    /\ Top.op = "walk"
    /\ ~isdir(Top.path)
    /\ get_extraction_method(Top.path) = "None"
    /\ LET reference_item == ReferenceItem(relpath(Top.path, Top.relative_to), None)
       IN  yielded' = Append(yielded, <<Top.path, Top.reference \o <<reference_item>>>>)
    /\ stack' = Pop \o <<[Top EXCEPT !.op = "yield"]>>
    /\ status' = "suspended"
    /\ UNCHANGED <<fs, cwd, warnings, ntmp, error>>
    /\ UNCHANGED <<indexVars, iconVars, overlayVars, sourceVars, registryVars>>

\* The consumer asks for the next pair: the generator that yielded returns.
Resume ==
    /\ status = "suspended"
    /\ stack' = Pop
    /\ status' = Returned
    /\ UNCHANGED <<fs, cwd, yielded, warnings, ntmp, error>>
    /\ UNCHANGED <<indexVars, iconVars, overlayVars, sourceVars, registryVars>>

\* InnerCall with the caller's relative_to handed down.
InnerCallOuterRoot(contents_path, reference, reference_item, relative_to) ==
    Call(contents_path, reference \o <<reference_item>>, relative_to)

\* InnerCall with the reference handed down as it is.
InnerCallSameReference(contents_path, reference, reference_item, relative_to) ==
    Call(contents_path, reference, contents_path)

\* The recursive call inside the with statement: the contents of the
\* container, under the reference extended by the container's item and
\* relative to the scratch directory.
InnerCall(contents_path, reference, reference_item, relative_to) ==
    Call(contents_path, reference \o <<reference_item>>, contents_path)

\* The file branch, with an extraction method: enter the Extractor.  When
\* it extracts, recurse into the scratch directory with the reference
\* extended by the container's item and relative_to the scratch directory;
\* when it raises one of the caught exceptions, log it and return; any
\* other exception leaves walk.
WalkContainer ==
    /\ status = "running"
    /\ Top.op = "walk"
    /\ ~isdir(Top.path)
    /\ get_extraction_method(Top.path) # "None"
    /\ Extractor_enter(Top.path, get_extraction_method(Top.path))
    /\ LET reference_item == ReferenceItem(relpath(Top.path, Top.relative_to), None)
           exc == CallMethod(get_extraction_method(Top.path), DataAt(Top.path))
           contents_path == TemporaryDirectory(ntmp)
       IN  IF exc = "none"
           THEN /\ stack' = Pop \o
                       <<Frame("with", Top.path, Top.reference, Top.relative_to,
                               <<>>, cwd, contents_path),
                         InnerCall(contents_path, Top.reference, reference_item,
                                   Top.relative_to)>>
                /\ UNCHANGED <<status, warnings, error>>
           ELSE IF exc \in WalkCaught
           THEN /\ warnings' = Append(warnings, Top.path)
                /\ stack' = Pop
                /\ status' = Returned
                /\ UNCHANGED error
           ELSE /\ error' = exc
                /\ stack' = Pop
                /\ status' = IF Len(stack) = 1 THEN "raised" ELSE "raising"
                /\ UNCHANGED warnings
    /\ UNCHANGED yielded
    /\ UNCHANGED <<indexVars, iconVars, overlayVars, sourceVars, registryVars>>

\* The inner generator is exhausted: the with statement ends.
WalkContainerDone ==
    /\ status = "running"
    /\ Top.op = "with"
    /\ Extractor_exit(Top)
    /\ stack' = Pop
    /\ status' = Returned
    /\ UNCHANGED <<yielded, warnings, ntmp, error>>
    /\ UNCHANGED <<indexVars, iconVars, overlayVars, sourceVars, registryVars>>

\* An exception leaves the frame on top.  A with statement runs __exit__,
\* and the except clause around it catches the exceptions it names.
Propagate ==
    /\ status = "raising"
    /\ stack' = Pop
    /\ IF Top.op = "with"
       THEN /\ Extractor_exit(Top)
            /\ IF error \in WalkCaught
               THEN /\ warnings' = Append(warnings, Top.path)
                    /\ status' = Returned
               ELSE /\ status' = IF Len(stack) = 1 THEN "raised" ELSE "raising"
                    /\ UNCHANGED warnings
       ELSE /\ status' = IF Len(stack) = 1 THEN "raised" ELSE "raising"
            /\ UNCHANGED <<fs, cwd, warnings>>
    /\ UNCHANGED <<yielded, ntmp, error>>
    /\ UNCHANGED <<indexVars, iconVars, overlayVars, sourceVars, registryVars>>

(***************************************************************************)
(* The directories a walk can start on.                                    *)
(***************************************************************************)
\* The parts of the state a walk on its own leaves alone.
IndexIdle ==
    /\ assets = <<>>
    /\ imported = <<>>
    /\ apps = <<>>
    /\ files_directory = {}
    /\ errors_directory = <<>>
    /\ releases_json = None
    /\ programs = <<>>
    /\ summary = None
    /\ group_index = <<>>
    /\ ipc = "idle"

IconIdle ==
    /\ icons = <<>>
    /\ icon = [set |-> FALSE, value |-> None]

OverlayIdle ==
    /\ overlay_directories = <<>>
    /\ output_directory = None
    /\ overlay_runs = [count |-> 0, error |-> "none"]

RegistryIdle ==
    /\ lookup_path = <<>>
    /\ looked_up = None

SourceIdle ==
    /\ asset_source = None
    /\ raw_reference = <<>>
    /\ resolved = None
    /\ published = None
    /\ configured_url = <<>>
    /\ created = None
    /\ commands = <<>>

\* Shapes that also occur nested inside zip files, and those that do not.
DeepShapes == <<1, 2, 6>>
FlatShapes == <<3, 4, 5, 7, 8, 9, 10>>

ArcEntry(shape, k) == Entry(<<ArcName(Arc(shape, k))>>, Arc(shape, k))

\* Every entry the walked directory can have, in listing order.
Universe ==
    <<Entry(<<NameASis>>, Plain("sisA"))>>
    \o [i \in 1..(Len(DeepShapes) * (MaxDepth + 1)) |->
            ArcEntry(DeepShapes[((i - 1) % Len(DeepShapes)) + 1], (i - 1) \div Len(DeepShapes))]
    \o [i \in 1..Len(FlatShapes) |-> ArcEntry(FlatShapes[i], 0)]
    \o <<Entry(<<NameD, NameXApp>>, Plain("appX")), Entry(<<NameFork>>, Plain("fork"))>>

\* The listings: at most MaxTop entries of the universe, in its order.
Listings ==
    LET picks == UNION {[1..n -> 1..Len(Universe)] : n \in 0..MaxTop}
        rising == {p \in picks : \A i \in 1..Len(p) : \A j \in 1..Len(p) : i < j => p[i] < p[j]}
    IN  {[i \in 1..Len(p) |-> Universe[p[i]]] : p \in rising}

\* A walk of the source's directory, or of the one file in it (a source
\* names an archive or a document, never a resource fork).
InitWalk ==
    /\ \E listing \in Listings :
        /\ fs = (SourcePath :> listing)
        /\ \E whole \in BOOLEAN :
            /\ ~whole => /\ Len(listing) = 1
                          /\ Len(listing[1].rel) = 1
                          /\ ~startswith(listing[1].rel[1], <<".", "_">>)
            /\ stack = <<Call(IF whole THEN SourcePath ELSE SourcePath \o listing[1].rel,
                              <<>>, ItemDirectory)>>
    /\ cwd = StartDirectory
    /\ status = "running"
    /\ yielded = <<>>
    /\ warnings = <<>>
    /\ ntmp = 0
    /\ error = "none"
    /\ IndexIdle
    /\ IconIdle
    /\ OverlayIdle
    /\ SourceIdle
    /\ RegistryIdle

NextWalk ==
    \/ WalkDirectory
    \/ WalkNextFile
    \/ WalkDirectoryDone
    \/ WalkLeaf
    \/ Resume
    \/ WalkContainer
    \/ WalkContainerDone
    \/ Propagate

vars == <<walkVars, indexVars, iconVars, overlayVars, sourceVars, registryVars>>

SpecWalk == InitWalk /\ [][NextWalk]_vars

(***************************************************************************)
(* Properties of the walker.                                               *)
(***************************************************************************)
Finished == status \in {"done", "raised"}

\* The names of a reference, item by item.
Names(reference) == [k \in 1..Len(reference) |-> reference[k].name]

\* The directory a yielded file lies in as a member: the scratch directory
\* of the container it was extracted from, or the caller's relative_to.
ContainerRoot(leaf) ==
    IF Head(leaf) = NameTmp THEN SubSeq(leaf, 1, 2) ELSE ItemDirectory

\* The with statements that are open, outermost first.
OpenContainers == SelectSeq(stack, LAMBDA f : f.op = "with")

\* The listing the walk started on.
SourceListing == fs[SourcePath]

\* The name chains a walk of the entries is to yield when a container
\* whose extraction fails is skipped and nothing else is: base is the path
\* of the entries' root relative to the reference root.
RECURSIVE ExpectedChains(_, _, _)
ExpectedChains(entries, chain, base) ==
    UNION {
        LET e == entries[k]
            here == chain \o <<base \o e.rel>>
        IN  IF e.data.kind = "plain"
            THEN IF startswith(basename(e.rel), <<".", "_">>) THEN {} ELSE {here}
            ELSE IF FaultOf(e.data) # "none" THEN {}
            ELSE ExpectedChains(Members(e.data), here, <<>>)
        : k \in 1..Len(entries)}

\* C1: every yielded reference has at least one item, and the name of its
\* last item is the path of the yielded file relative to its immediate
\* container (its scratch directory, or the caller's relative_to root).
C1_LastNameIsLeaf ==
    \A i \in 1..Len(yielded) :
        LET leaf == yielded[i][1]
            chain == yielded[i][2]
        IN  /\ Len(chain) >= 1
            /\ ContainerRoot(leaf) \o chain[Len(chain)].name = leaf

C1_Witness ==
    \E i \in 1..Len(yielded) :
        /\ Head(yielded[i][1]) = NameTmp
        /\ Len(yielded[i][2]) >= 3
        /\ Len(yielded[i][2][Len(yielded[i][2])].name) = 2

\* C2: a failing extraction is not fatal: the walk never ends with an
\* exception, and a finished walk has yielded exactly the files outside
\* the containers that failed, each once.
C2_FailureNotFatal ==
    /\ status \notin {"raising", "raised"}
    /\ status = "done" =>
        /\ {Names(yielded[i][2]) : i \in 1..Len(yielded)}
               = ExpectedChains(SourceListing, <<>>, <<NameFiles>>)
        /\ Len(yielded) = Cardinality(ExpectedChains(SourceListing, <<>>, <<NameFiles>>))

\* C3: once the walk has finished, returned or raised, the working
\* directory is the one the walk was started in.
C3_WorkingDirectoryRestored == Finished => cwd = StartDirectory

C3_Witness == status = "raised" /\ ntmp >= 3 /\ Len(yielded) >= 1

\* C4: once the walk has finished, returned or raised, none of the scratch
\* directories it made exists.
C4_ScratchRemoved ==
    Finished => \A n \in 0..(ntmp - 1) : TemporaryDirectory(n) \notin DOMAIN fs

C4_Witness == status = "done" /\ ntmp >= 3 /\ Len(warnings) >= 1

\* C5 as stated: a file yielded from inside a zip inside a zip has a
\* reference of length 2, the outer zip's item before the inner zip's.
ZipInZip ==
    /\ status = "suspended"
    /\ Len(OpenContainers) = 2
    /\ \A k \in 1..2 : get_extraction_method(OpenContainers[k].path) = "extract_zip"

ContainerName(frame) == relpath(frame.path, frame.relative_to)

C5_ChainOfTwo ==
    ZipInZip =>
        LET chain == yielded[Len(yielded)][2]
        IN  /\ Len(chain) = 2
            /\ chain[1].name = ContainerName(OpenContainers[1])
            /\ chain[2].name = ContainerName(OpenContainers[2])

\* C5 amended: the reference has length 3: the outer zip's item, the inner
\* zip's item, then the item of the file itself.
C5_ChainOfThree ==
    ZipInZip =>
        LET chain == yielded[Len(yielded)][2]
        IN  /\ Len(chain) = 3
            /\ chain[1].name = ContainerName(OpenContainers[1])
            /\ chain[2].name = ContainerName(OpenContainers[2])
            /\ ContainerRoot(Top.path) \o chain[3].name = Top.path

C5_Witness == ZipInZip /\ Len(stack) >= 5

(***************************************************************************)
(* Python's sorted and reversed.                                           *)
(***************************************************************************)
\* Sort keys are sequences of tokens, a token a sequence of integers: a
\* number is <<n>>, a string the code points of its characters.  Tokens
\* and keys compare element by element, as Python compares tuples and
\* strings.
IntSeqLess(a, b) ==
    \E k \in 1..Len(b) :
        /\ k <= Len(a) + 1
        /\ \A j \in 1..(k - 1) : a[j] = b[j]
        /\ k <= Len(a) => a[k] < b[k]

KeyLess(a, b) ==
    \E k \in 1..Len(b) :
        /\ k <= Len(a) + 1
        /\ \A j \in 1..(k - 1) : a[j] = b[j]
        /\ k <= Len(a) => IntSeqLess(a[k], b[k])

\* sorted(s, key=...), keys[i] the key of s[i]: the stable sort.  An
\* element goes behind every element with a smaller key and every earlier
\* element with an equal key.
sorted(s, keys) ==
    LET before(i) == {j \in 1..Len(s) :
                        \/ KeyLess(keys[j], keys[i])
                        \/ ~KeyLess(keys[i], keys[j]) /\ j < i}
    IN  [k \in 1..Len(s) |->
            s[CHOOSE i \in 1..Len(s) : Cardinality(before(i)) = k - 1]]

reversed(s) == [k \in 1..Len(s) |-> s[Len(s) + 1 - k]]

(***************************************************************************)
(* Icon selection.                                                         *)
(***************************************************************************)
\* The key (bpp, width) of an icon.
IconKey(i) == << <<i.bpp>>, <<i.width>> >>

\* select_icon_dict without the limit on the size.
select_icon_dict_any_size(list) ==
    LET candidates == SelectSeq(list, LAMBDA i : i.width = i.height)
        ordered == reversed(sorted(candidates,
                                   [k \in 1..Len(candidates) |-> IconKey(candidates[k])]))
    IN  IF Len(ordered) < 1 THEN None ELSE Some(ordered[1])

select_icon_dict(list) ==
    LET candidates == SelectSeq(list, LAMBDA i : i.width = i.height /\ i.width <= 48)
        ordered == reversed(sorted(candidates,
                                   [k \in 1..Len(candidates) |-> IconKey(candidates[k])]))
    IN  IF Len(ordered) < 1 THEN None ELSE Some(ordered[1])

Icon(filename, width, height, bpp) ==
    [filename |-> filename, width |-> width, height |-> height, bpp |-> bpp]

Icon24 == Icon("a.png", 24, 24, 4)
Icon32 == Icon("b.png", 32, 32, 8)
Icon64 == Icon("c.png", 64, 64, 8)

\* The icons a decoder reports in the model.
IconUniverse ==
    {Icon24, Icon32, Icon64,
     Icon("d.png", 32, 32, 8), Icon("e.png", 48, 32, 8),
     Icon("f.png", 48, 48, 2), Icon("g.png", 16, 16, 8)}

WalkIdle ==
    /\ fs = <<>>
    /\ cwd = StartDirectory
    /\ stack = <<>>
    /\ status = "idle"
    /\ yielded = <<>>
    /\ warnings = <<>>
    /\ ntmp = 0
    /\ error = "none"

InitIcon ==
    /\ icons \in UNION {[1..n -> IconUniverse] : n \in 0..MaxIcons}
    /\ icon = [set |-> FALSE, value |-> None]
    /\ WalkIdle
    /\ IndexIdle
    /\ OverlayIdle
    /\ SourceIdle
    /\ RegistryIdle

\* One call of select_icon_dict.
SelectIcon ==
    /\ ~icon.set
    /\ icon' = [set |-> TRUE, value |-> select_icon_dict(icons)]
    /\ UNCHANGED <<icons, walkVars, indexVars, overlayVars, sourceVars, registryVars>>

NextIcon == SelectIcon

SpecIcon == InitIcon /\ [][NextIcon]_vars

\* The icons that may be selected: square, at most 48 pixels a side.
Candidates == {k \in 1..Len(icons) : icons[k].width = icons[k].height /\ icons[k].width <= 48}

\* The candidates no candidate beats: none has a greater bit depth, and
\* none of the same bit depth is wider.
BestCandidates ==
    {k \in Candidates :
        \A j \in Candidates :
            /\ icons[j].bpp <= icons[k].bpp
            /\ icons[j].bpp = icons[k].bpp => icons[j].width <= icons[k].width}

\* C9: select_icon_dict returns a square icon of at most 48 pixels whose
\* (bit depth, width) is greatest among such icons, and no icon exactly
\* when there is no such icon; of 24x24 at 4 bpp, 32x32 at 8 bpp and 64x64
\* at 8 bpp it returns the 32x32 one.
C9_BestCandidate ==
    icon.set =>
        /\ icon.value = None <=> Candidates = {}
        /\ icon.value # None => \E k \in BestCandidates : icon.value = Some(icons[k])
        /\ icons = <<Icon24, Icon32, Icon64>> => icon.value = Some(Icon32)

C9_Witness == icon.set /\ icons = <<Icon24, Icon32, Icon64>>

\* C10: among several candidates with the greatest bit depth and width,
\* the one that comes first in the list is selected.
C10_FirstOfTies ==
    icon.set /\ icon.value # None =>
        icon.value = Some(icons[CHOOSE k \in BestCandidates : \A j \in BestCandidates : k <= j])

(***************************************************************************)
(* The format decoder (opolua) and the files the indexer meets.  The bytes *)
(* of a file are named by a string; what the decoder reports for them is a *)
(* table.                                                                  *)
(***************************************************************************)
Alpha == <<"A", "l", "p", "h", "a">>
alpha == <<"a", "l", "p", "h", "a">>
Beta == <<"B", "e", "t", "a">>
Xapp == <<"X", "a", "p", "p">>

V20 == <<"2", ".", "0">>
V100 == <<"1", "0", ".", "0">>
V15 == <<"1", ".", "5">>
V010 == <<"0", "1", ".", "0">>
Unknown == <<"U", "n", "k", "n", "o", "w", "n">>

\* hashlib.sha256 of the bytes, as a hex digest (two digits in the model).
shasum(data) ==
    CASE data = "sisA" -> <<"a", "0">>
      [] data = "sisB" -> <<"b", "0">>
      [] data = "sisC" -> <<"c", "0">>
      [] data = "sisD" -> <<"d", "0">>
      [] data = "sisE" -> <<"e", "0">>
      [] data = "sisF" -> <<"f", "0">>
      [] data = "appX" -> <<"a", "1">>
      [] data = "aifP" -> <<"b", "1">>
      [] data = "aifQ" -> <<"c", "1">>
      [] data = "aifM" -> <<"d", "1">>
      [] data = "aifBad" -> <<"e", "1">>
      [] OTHER -> <<"f", "1">>

\* os.path.getsize.
getsize(data) == IF data \in {"sisA", "sisB", "sisC"} THEN 4096 ELSE 512

IconFile(filename, width, height, bpp, sha) ==
    [filename |-> filename, width |-> width, height |-> height, bpp |-> bpp, sha256 |-> sha]

\* opolua.dumpsis: uid, localized names and version, or InvalidInstaller.
dumpsis(data) ==
    CASE data = "sisA" ->
            [raises |-> "none", uid |-> 268435457, name |-> ("en_GB" :> Alpha), version |-> V20]
      [] data = "sisB" ->
            [raises |-> "none", uid |-> 268435457, name |-> ("en_US" :> alpha), version |-> V100]
      [] data = "sisC" ->
            [raises |-> "none", uid |-> 268435457, name |-> ("fr_FR" :> Alpha), version |-> V15]
      [] data = "sisD" ->
            [raises |-> "none", uid |-> 268435458, name |-> ("pl_PL" :> Beta), version |-> V010]
      [] data = "sisF" ->
            [raises |-> "none", uid |-> 43981, name |-> ("de_DE" :> Beta @@ "" :> alpha),
             version |-> V010]
      [] OTHER ->
            [raises |-> "InvalidInstaller", uid |-> 0, name |-> <<>>, version |-> <<>>]

\* The first *.aif file dumpsis_extract unpacks from an installer.
EmbeddedAif(data) ==
    CASE data = "sisA" -> Some("aifP")
      [] data = "sisB" -> Some("aifQ")
      [] data = "sisD" -> Some("aifBad")
      [] OTHER -> None

\* opolua.dumpaif: uid3 and captions, or InvalidAIF.
dumpaif(data) ==
    CASE data = "aifP" -> [raises |-> "none", uid3 |-> 268435457, captions |-> ("en_GB" :> Xapp)]
      [] data = "aifQ" -> [raises |-> "none", uid3 |-> 43981, captions |-> ("de_DE" :> Xapp)]
      [] data = "aifM" -> [raises |-> "none", uid3 |-> 43982, captions |-> ("pl_PL" :> Xapp)]
      [] OTHER -> [raises |-> "InvalidAIF", uid3 |-> 0, captions |-> <<>>]

\* opolua.get_icons: the icons of an icon resource, or a decode error.
get_icons(data) ==
    CASE data = "aifP" ->
            [raises |-> "none",
             icons |-> <<IconFile("a.png", 24, 24, 4, <<"a", "2">>),
                         IconFile("b.png", 32, 32, 8, <<"b", "2">>),
                         IconFile("c.png", 64, 64, 8, <<"c", "2">>)>>]
      [] data = "aifQ" ->
            [raises |-> "none",
             icons |-> <<IconFile("d.png", 32, 32, 8, <<"d", "2">>),
                         IconFile("e.png", 32, 32, 8, <<"e", "2">>)>>]
      [] data = "aifM" -> [raises |-> "none", icons |-> <<>>]
      [] OTHER -> [raises |-> "InvalidAIF", icons |-> <<>>]

\* opolua.recognize over the files next to (or inside) a file: the eras
\* and types it reports.
Recognized(data) ==
    CASE data \in {"sisA", "sisB", "sisC"} -> {"er5", "sis"}
      [] data = "sisF" -> {"opo", "unknown"}
      [] data = "appX" -> {"opa", "sibo"}
      [] OTHER -> {"unknown"}

LANGUAGE_ORDER == <<"en_GB", "en_US", "en_AU", "fr_FR", "de_DE", "it_IT", "nl_NL", "bg_BG", "">>

TAG_MAPPING == ("opl" :> "opl") @@ ("opo" :> "opl") @@ ("opa" :> "opl") @@ ("er5" :> "epoc32")

remap_tag(tag) == IF tag \in DOMAIN TAG_MAPPING THEN TAG_MAPPING[tag] ELSE tag

\* discover_tags over a directory whose files have the given bytes.
discover_tags(datas) ==
    {remap_tag(t) : t \in UNION {Recognized(d) : d \in datas}} \ {"unknown"}

\* select_name: the name of the first language of LANGUAGE_ORDER the
\* table has, MissingName when it has none.
select_name(names) ==
    LET hits == {i \in 1..Len(LANGUAGE_ORDER) : LANGUAGE_ORDER[i] \in DOMAIN names}
    IN  IF hits = {} THEN [raises |-> "MissingName", value |-> <<>>]
        ELSE [raises |-> "none",
              value |-> names[LANGUAGE_ORDER[CHOOSE i \in hits : \A j \in hits : i <= j]]]

HexDigits == <<"0", "1", "2", "3", "4", "5", "6", "7", "8", "9", "a", "b", "c", "d", "e", "f">>

\* "0x%08x" % n.
Hex08(n) ==
    <<"0", "x">> \o [i \in 1..8 |-> HexDigits[((n \div (16 ^ (8 - i))) % 16) + 1]]

\* os.path.splitext of a file name: the suffix from the last dot on, a
\* leading dot apart.
splitext(name) ==
    LET dots == {i \in 2..Len(name) : name[i] = "."}
    IN  IF dots = {} THEN <<name, <<>>>>
        ELSE LET d == CHOOSE i \in dots : \A j \in dots : j <= i
             IN  <<SubSeq(name, 1, d - 1), SubSeq(name, d, Len(name))>>

(***************************************************************************)
(* The release builder: import_installer, import_source and index.         *)
(***************************************************************************)
Release(filename, size, reference, kind, identifier, sha256, name, version, icon_list, tags) ==
    [filename |-> filename, size |-> size, reference |-> reference, kind |-> kind,
     uid |-> identifier, sha256 |-> sha256, name |-> name, version |-> version,
     icons |-> icon_list, tags |-> tags]

\* Release.as_dict that writes the items of the reference leaf first.
Release_as_dict_reversed(r) ==
    [filename |-> r.filename, size |-> r.size,
     reference |-> [k \in 1..Len(r.reference) |->
                        [name |-> r.reference[Len(r.reference) + 1 - k].name,
                         url |-> r.reference[Len(r.reference) + 1 - k].url]],
     kind |-> r.kind, sha256 |-> r.sha256, uid |-> r.uid, name |-> r.name,
     version |-> r.version, tags |-> r.tags,
     icons |-> [k \in 1..Len(r.icons) |->
                    [filename |-> r.icons[k].filename, width |-> r.icons[k].width,
                     height |-> r.icons[k].height, bpp |-> r.icons[k].bpp,
                     sha256 |-> r.icons[k].sha256]]]

\* Release.as_dict: the dict json.dump writes and json.load reads back
\* (the sorted list of the tags stands for their set).
Release_as_dict(r) ==
    [filename |-> r.filename, size |-> r.size,
     reference |-> [k \in 1..Len(r.reference) |->
                        [name |-> r.reference[k].name, url |-> r.reference[k].url]],
     kind |-> r.kind, sha256 |-> r.sha256, uid |-> r.uid, name |-> r.name,
     version |-> r.version, tags |-> r.tags,
     icons |-> [k \in 1..Len(r.icons) |->
                    [filename |-> r.icons[k].filename, width |-> r.icons[k].width,
                     height |-> r.icons[k].height, bpp |-> r.icons[k].bpp,
                     sha256 |-> r.icons[k].sha256]]]

\* One call of error_handler, and what a sequence of calls leaves in the
\* errors directory: a hash that is there already is left alone.
ErrorCall(data, exc) == [sha |-> shasum(data), error |-> exc]

RECURSIVE error_handler(_, _)
error_handler(directory, calls) ==
    IF calls = <<>> THEN directory
    ELSE LET c == Head(calls)
         IN  error_handler(IF c.sha \in DOMAIN directory THEN directory
                           ELSE directory @@ (c.sha :> c.error),
                           Tail(calls))

\* import_installer: the exception it raises, the release it returns, the
\* hashes it stages and the calls of error_handler it makes.
import_installer(asset) ==
    LET info == dumpsis(asset.data)
        aif == EmbeddedAif(asset.data)
        decoded == IF aif = None THEN [raises |-> "none", icons |-> <<>>] ELSE get_icons(aif[1])
        calls == IF decoded.raises = "none" THEN <<>> ELSE <<ErrorCall(aif[1], decoded.raises)>>
        sha256 == shasum(asset.data)
        name == select_name(info.name)
    IN  IF info.raises # "none"
        THEN [raises |-> info.raises, release |-> None, staged |-> {}, calls |-> <<>>]
        ELSE IF name.raises # "none"
        THEN [raises |-> name.raises, release |-> None, staged |-> {sha256}, calls |-> calls]
        ELSE [raises |-> "none",
              release |-> Some(Release(asset.filename, getsize(asset.data), asset.reference,
                                       "installer", Hex08(info.uid), sha256, name.value,
                                       info.version, decoded.icons,
                                       discover_tags({asset.data}))),
              staged |-> {sha256}, calls |-> calls]

\* The .app / .opa branch of import_source: with a sibling .aif the uid,
\* the name and the icons come from it, as far as its decoding gets;
\* without one the file itself is decoded and the uid is its hash.
import_standalone(asset) ==
    LET stem == splitext(asset.filename)[1]
        target == IF asset.sibling = None THEN asset.data ELSE asset.sibling[1]
        info == dumpaif(target)
        caption == select_name(info.captions)
        decoded == get_icons(target)
        failure == IF info.raises # "none" THEN info.raises
                   ELSE IF asset.sibling # None
                        THEN IF caption.raises # "none" THEN caption.raises ELSE decoded.raises
                        ELSE IF decoded.raises # "none" THEN decoded.raises ELSE caption.raises
        uid == IF asset.sibling # None /\ info.raises = "none"
               THEN lower(Hex08(info.uid3)) ELSE shasum(asset.data)
        app_name == IF info.raises = "none" /\ caption.raises = "none"
                       /\ (asset.sibling # None \/ decoded.raises = "none")
                    THEN caption.value ELSE stem
        icon_list == IF info.raises = "none" /\ decoded.raises = "none"
                        /\ (asset.sibling = None \/ caption.raises = "none")
                     THEN decoded.icons ELSE <<>>
        siblings == IF asset.sibling = None THEN {} ELSE {asset.sibling[1]}
    IN  [raises |-> "none",
         release |-> Some(Release(asset.filename, getsize(asset.data), asset.reference,
                                  "standalone", uid, shasum(asset.data), app_name, Unknown,
                                  icon_list, discover_tags({asset.data} \cup siblings))),
         staged |-> {shasum(asset.data)},
         calls |-> IF failure = "none" THEN <<>> ELSE <<ErrorCall(target, failure)>>]

\* One turn of the loop of import_source over source.assets.
import_one(asset) ==
    LET ext == lower(splitext(asset.filename)[2])
        installed == import_installer(asset)
    IN  IF ext = <<".", "a", "p", "p">> \/ ext = <<".", "o", "p", "a">>
        THEN import_standalone(asset)
        ELSE IF ext = <<".", "s", "i", "s">>
        THEN IF installed.raises = "none" THEN installed
             ELSE [installed EXCEPT
                      !.calls = @ \o <<ErrorCall(asset.data, installed.raises)>>]
        ELSE [raises |-> "none", release |-> None, staged |-> {}, calls |-> <<>>]

\* import_source without its except clauses: an exception of a file
\* leaves import_source and index.
ImportAsset_aborts ==
    /\ ipc = "index"
    /\ assets # <<>>
    /\ LET done == import_one(Head(assets))
       IN  IF done.calls # <<>>
           THEN /\ ipc' = "aborted"
                /\ UNCHANGED <<assets, imported, apps, files_directory, errors_directory>>
           ELSE /\ apps' = apps \o done.release
                /\ files_directory' = files_directory \cup done.staged
                /\ assets' = Tail(assets)
                /\ imported' = Append(imported, Head(assets))
                /\ UNCHANGED <<errors_directory, ipc>>
    /\ UNCHANGED <<releases_json, programs, summary, group_index>>
    /\ UNCHANGED <<walkVars, iconVars, overlayVars, sourceVars, registryVars>>

ImportAsset ==
    /\ ipc = "index"
    /\ assets # <<>>
    /\ LET done == import_one(Head(assets))
       IN  /\ apps' = apps \o done.release
           /\ files_directory' = files_directory \cup done.staged
           /\ errors_directory' = error_handler(errors_directory, done.calls)
    /\ assets' = Tail(assets)
    /\ imported' = Append(imported, Head(assets))
    /\ UNCHANGED <<releases_json, programs, summary, group_index, ipc>>
    /\ UNCHANGED <<walkVars, iconVars, overlayVars, sourceVars, registryVars>>

\* index, after the sources are imported: write the releases index.
IndexWrite ==
    /\ ipc = "index"
    /\ assets = <<>>
    /\ releases_json' = Some([k \in 1..Len(apps) |-> Release_as_dict(apps[k])])
    /\ ipc' = "indexed"
    /\ UNCHANGED <<assets, imported, apps, files_directory, errors_directory,
                   programs, summary, group_index>>
    /\ UNCHANGED <<walkVars, iconVars, overlayVars, sourceVars, registryVars>>

(***************************************************************************)
(* Sort keys of strings: code point order and natsort's natural order.     *)
(***************************************************************************)
\* The characters of the model in code point order.
Alphabet == <<".">> \o Digits \o Upper \o <<"_">> \o Lowercase

Ord(c) == CHOOSE i \in 1..Len(Alphabet) : Alphabet[i] = c

\* The key of a string compared as a string.
StrKey(str) == <<[i \in 1..Len(str) |-> Ord(str[i])]>>

IsDigit(c) == \E i \in 1..Len(Digits) : Digits[i] = c

\* The length of the longest prefix of str made of digits (digit = TRUE)
\* or of no digit (digit = FALSE).
RECURSIVE RunLen(_, _)
RunLen(str, digit) ==
    IF str = <<>> \/ IsDigit(Head(str)) # digit THEN 0
    ELSE 1 + RunLen(Tail(str), digit)

\* int() of a run of digits.
RECURSIVE ToInt(_)
ToInt(run) ==
    IF run = <<>> THEN 0
    ELSE 10 * ToInt(SubSeq(run, 1, Len(run) - 1))
            + ((CHOOSE i \in 1..Len(Digits) : Digits[i] = run[Len(run)]) - 1)

\* The runs of a string: numbers for runs of digits, strings for the rest.
RECURSIVE Tokens(_)
Tokens(str) ==
    IF str = <<>> THEN <<>>
    ELSE LET digit == IsDigit(Head(str))
             n == RunLen(str, digit)
             run == SubSeq(str, 1, n)
         IN  <<IF digit THEN <<ToInt(run)>> ELSE StrKey(run)[1]>>
                 \o Tokens(SubSeq(str, n + 1, Len(str)))

\* natsort's key of a string: its runs, strings and numbers in turn,
\* beginning with a string (the empty one before a leading number).
natsort_key(str) ==
    IF str # <<>> /\ IsDigit(Head(str)) THEN <<<<>>>> \o Tokens(str) ELSE Tokens(str)

(***************************************************************************)
(* The grouper: group_collections, Version, Program and group.             *)
(***************************************************************************)
\* model.Collection(identifier, items).
Collection(identifier, items) == [identifier |-> identifier, items |-> items]

\* group_collections with a group of one: each installer replaces the
\* list of its key.
group_collections_last(installers, field) ==
    LET keys == Distinct([k \in 1..Len(installers) |-> installers[k][field]])
    IN  [g \in 1..Len(keys) |->
            Collection(keys[g],
                <<installers[CHOOSE k \in 1..Len(installers) :
                    /\ installers[k][field] = keys[g]
                    /\ \A j \in (k + 1)..Len(installers) : installers[j][field] # keys[g]]>>)]

\* group_collections(installers, lambda x: x[field]): the installers of
\* every key, keys in the order they are first met.
group_collections(installers, field) ==
    LET keys == Distinct([k \in 1..Len(installers) |-> installers[k][field]])
    IN  [g \in 1..Len(keys) |->
            Collection(keys[g], SelectSeq(installers, LAMBDA x : x[field] = keys[g]))]

\* Version whose variants are grouped by file name.
Version_by_filename(installers) ==
    [installers |-> installers, variants |-> group_collections(installers, "filename")]

\* Version(installers).
Version(installers) ==
    [installers |-> installers, variants |-> group_collections(installers, "sha256")]

\* Version.version.
VersionOf(version) == version.installers[1].version

\* The versions of a program sorted as strings.
versions_sorted(list) ==
    sorted(list, [k \in 1..Len(list) |-> StrKey(VersionOf(list[k]))])

\* natsort.natsorted(list, key=lambda x: x.version).
natsorted(list) ==
    sorted(list, [k \in 1..Len(list) |-> natsort_key(VersionOf(list[k]))])

\* Program(uid, installers, screenshots).
Program(uid, installers, screenshots) ==
    LET by_version == group_collections(installers, "version")
    IN  [uid |-> uid,
         installers |-> installers,
         screenshots |-> screenshots,
         versions |-> natsorted([k \in 1..Len(by_version) |-> Version(by_version[k].items)]),
         tags |-> UNION {installers[k].tags : k \in 1..Len(installers)},
         kinds |-> {installers[k].kind : k \in 1..Len(installers)}]

\* Program.name and Program.icon.
ProgramName(program) == program.installers[1].name

ProgramIcon(program) ==
    LET with_icon == SelectSeq(program.installers, LAMBDA x : x.icon # None)
    IN  select_icon_dict([k \in 1..Len(with_icon) |-> with_icon[k].icon[1]])

\* group: a release stripped down for the API, with its selected icon.
StripRelease(installer) ==
    LET chosen == select_icon_dict(installer.icons)
    IN  [filename |-> installer.filename, size |-> installer.size,
         reference |-> installer.reference, kind |-> installer.kind,
         sha256 |-> installer.sha256, uid |-> installer.uid, name |-> installer.name,
         version |-> installer.version, tags |-> installer.tags,
         icon |-> IF chosen = None THEN None
                  ELSE Some([path |-> <<"icons", chosen[1].filename>>,
                             width |-> chosen[1].width, height |-> chosen[1].height,
                             bpp |-> chosen[1].bpp])]

\* The summary that counts the versions by their text alone, whatever the
\* uid.
Summary_by_text(releases) ==
    [installerCount |-> Len(releases),
     uidCount |-> Cardinality({releases[k].uid : k \in 1..Len(releases)}),
     versionCount |-> Cardinality({releases[k].version : k \in 1..Len(releases)}),
     shaCount |-> Cardinality({releases[k].sha256 : k \in 1..Len(releases)})]

\* Summary(installer_count, uid_count, version_count, sha_count).
Summary(releases) ==
    [installerCount |-> Len(releases),
     uidCount |-> Cardinality({releases[k].uid : k \in 1..Len(releases)}),
     versionCount |-> Cardinality({<<releases[k].uid, releases[k].version>> : k \in 1..Len(releases)}),
     shaCount |-> Cardinality({releases[k].sha256 : k \in 1..Len(releases)})]

\* The programs of group: the releases grouped by uid, the groups sorted
\* by the lower-cased name of their first release.
GroupPrograms(releases) ==
    LET groups == group_collections(releases, "uid")
        ordered == sorted(groups,
                          [g \in 1..Len(groups) |-> StrKey(lower(groups[g].items[1].name))])
    IN  [g \in 1..Len(ordered) |->
            Program(ordered[g].identifier,
                    [k \in 1..Len(ordered[g].items) |-> StripRelease(ordered[g].items[k])],
                    <<>>)]

Group ==
    /\ ipc = "indexed"
    /\ summary' = Some(Summary(releases_json[1]))
    /\ programs' = GroupPrograms(releases_json[1])
    /\ group_index' = [g \in 1..Len(programs') |->
                          [uid |-> programs'[g].uid, name |-> ProgramName(programs'[g]),
                           icon |-> ProgramIcon(programs'[g])]]
    /\ ipc' = "grouped"
    /\ UNCHANGED <<assets, imported, apps, files_directory, errors_directory, releases_json>>
    /\ UNCHANGED <<walkVars, iconVars, overlayVars, sourceVars, registryVars>>

(***************************************************************************)
(* The files a source yields to the indexer.                               *)
(***************************************************************************)
AssetKinds ==
    << [stem |-> "a", ext |-> <<".", "s", "i", "s">>, data |-> "sisA", sibling |-> None],
       [stem |-> "b", ext |-> <<".", "s", "i", "s">>, data |-> "sisB", sibling |-> None],
       [stem |-> "c", ext |-> <<".", "s", "i", "s">>, data |-> "sisC", sibling |-> None],
       [stem |-> "d", ext |-> <<".", "s", "i", "s">>, data |-> "sisD", sibling |-> None],
       [stem |-> "e", ext |-> <<".", "S", "I", "S">>, data |-> "sisE", sibling |-> None],
       [stem |-> "f", ext |-> <<".", "s", "i", "s">>, data |-> "sisF", sibling |-> None],
       [stem |-> "x", ext |-> <<".", "a", "p", "p">>, data |-> "appX", sibling |-> None],
       [stem |-> "x", ext |-> <<".", "a", "p", "p">>, data |-> "appX", sibling |-> Some("aifP")],
       [stem |-> "x", ext |-> <<".", "o", "p", "a">>, data |-> "appX", sibling |-> Some("aifQ")],
       [stem |-> "x", ext |-> <<".", "A", "P", "P">>, data |-> "appX", sibling |-> Some("aifM")],
       [stem |-> "r", ext |-> <<".", "t", "x", "t">>, data |-> "text", sibling |-> None] >>

\* The i-th file a source yields: a file of its own name, reached through
\* a container of its own.
Asset(kind, i) ==
    [filename |-> <<AssetKinds[kind].stem, Digit(i)>> \o AssetKinds[kind].ext,
     data |-> AssetKinds[kind].data,
     sibling |-> AssetKinds[kind].sibling,
     reference |-> <<ReferenceItem(<<<<"z", Digit(i)>> \o ExtZip>>, None),
                     ReferenceItem(<<<<AssetKinds[kind].stem, Digit(i)>> \o AssetKinds[kind].ext>>,
                                   None)>>]

InitIndex ==
    /\ \E n \in 0..MaxAssets :
        \E kinds \in [1..n -> 1..Len(AssetKinds)] :
            assets = [i \in 1..n |-> Asset(kinds[i], i)]
    /\ imported = <<>>
    /\ apps = <<>>
    /\ files_directory = {}
    /\ errors_directory = <<>>
    /\ releases_json = None
    /\ programs = <<>>
    /\ summary = None
    /\ group_index = <<>>
    /\ ipc = "index"
    /\ WalkIdle
    /\ IconIdle
    /\ OverlayIdle
    /\ SourceIdle
    /\ RegistryIdle

NextIndex ==
    \/ ImportAsset
    \/ IndexWrite
    \/ Group

SpecIndex == InitIndex /\ [][NextIndex]_vars

(***************************************************************************)
(* Properties of the index -> group pipeline.                              *)
(***************************************************************************)
Grouped == ipc = "grouped"

\* The places of the hierarchy: program, version, variant, and item.
VariantPlaces ==
    {<<p, v, w>> \in (1..Len(programs)) \X (1..MaxAssets) \X (1..MaxAssets) :
        /\ v <= Len(programs[p].versions)
        /\ w <= Len(programs[p].versions[v].variants)}

VariantAt(place) == programs[place[1]].versions[place[2]].variants[place[3]]

ItemPlaces ==
    {<<place, i>> \in VariantPlaces \X (1..MaxAssets) : i <= Len(VariantAt(place).items)}

\* The variants that hold the release.
Holding(release) ==
    {place \in VariantPlaces :
        \E i \in 1..Len(VariantAt(place).items) :
            VariantAt(place).items[i] = StripRelease(release)}

\* Two releases of the same bytes found through different containers.
SameBytes(a, b) ==
    /\ a.sha256 = b.sha256
    /\ a.reference # b.reference
    /\ a.reference[1] # b.reference[1]

\* C6 as claimed: after index and group, any two discovered files with
\* identical bytes are held by exactly one Variant, the same one, which
\* has an entry for each of them; they are never in two Variants.
C6_OneVariant ==
    Grouped =>
        \A i, j \in 1..Len(releases_json[1]) :
            LET a == releases_json[1][i]
                b == releases_json[1][j]
            IN  i # j /\ SameBytes(a, b) =>
                    /\ Cardinality(Holding(a) \cup Holding(b)) = 1
                    /\ Holding(a) = Holding(b)

\* C6 amended: after index and group, any two discovered files with
\* identical bytes and the same uid (installers of identical bytes always
\* have the same uid; standalone files have it when the same companion
\* resource, or none, gave the uid) are held by exactly one Variant, the
\* same one, with one entry for each of them carrying its own provenance.
C6_OneVariantPerUid ==
    Grouped =>
        \A i, j \in 1..Len(releases_json[1]) :
            LET a == releases_json[1][i]
                b == releases_json[1][j]
            IN  /\ i # j
                /\ SameBytes(a, b)
                /\ a.uid = b.uid \/ (a.kind = "installer" /\ b.kind = "installer")
                =>
                    /\ Cardinality(Holding(a) \cup Holding(b)) = 1
                    /\ Holding(a) = Holding(b)
                    /\ \A place \in Holding(a) :
                          LET items == VariantAt(place).items
                          IN  /\ Len(items) >= 2
                              /\ \E m, n \in 1..Len(items) :
                                    /\ m # n
                                    /\ items[m].reference = a.reference
                                    /\ items[n].reference = b.reference

\* Two standalone files of identical bytes and the same uid, found in
\* different containers, have been grouped.
C6_Witness ==
    /\ Grouped
    /\ \E i, j \in 1..Len(releases_json[1]) :
          LET a == releases_json[1][i]
              b == releases_json[1][j]
          IN  /\ i # j /\ SameBytes(a, b) /\ a.uid = b.uid
              /\ a.kind = "standalone" /\ b.kind = "standalone"

IsNumeric(version) ==
    /\ version # <<>>
    /\ \A i \in 1..Len(version) : IsDigit(version[i]) \/ version[i] = "."
    /\ \A i \in 1..Len(version) :
          version[i] = "." => /\ i > 1 /\ i < Len(version)
                              /\ IsDigit(version[i - 1]) /\ IsDigit(version[i + 1])

RECURSIVE Components(_)
Components(version) ==
    LET n == RunLen(version, TRUE)
    IN  IF n = Len(version) THEN <<ToInt(version)>>
        ELSE <<ToInt(SubSeq(version, 1, n))>> \o Components(SubSeq(version, n + 2, Len(version)))

\* C8: after group, the Versions of every Program that have numeric
\* version strings are listed in ascending order of their numbers compared
\* component by component, and a Program with the versions 2.0, 10.0 and
\* 1.5 lists them as 1.5, 2.0, 10.0 in whatever order they were found.
C8_NaturalOrder ==
    Grouped =>
        \A p \in 1..Len(programs) :
            LET versions == [k \in 1..Len(programs[p].versions) |->
                                VersionOf(programs[p].versions[k])]
                numeric == SelectSeq(versions, IsNumeric)
            IN  /\ \A k \in 1..(Len(numeric) - 1) :
                      IntSeqLess(Components(numeric[k]), Components(numeric[k + 1]))
                /\ {numeric[k] : k \in 1..Len(numeric)} = {V20, V100, V15}
                      => numeric = <<V15, V20, V100>>

\* The versions 2.0, 10.0 and 1.5 of one program were found in this order
\* and have been grouped.
C8_Witness ==
    /\ Grouped
    /\ [k \in 1..Len(releases_json[1]) |-> releases_json[1][k].version] = <<V20, V100, V15>>
    /\ Len(programs) = 1
    /\ Len(programs[1].versions) = 3

(***************************************************************************)
(* Properties of the error channel of index.                               *)
(***************************************************************************)
Indexed == ipc \in {"indexed", "grouped"}

\* The kind of file import_source takes the pair for.
IsInstaller(asset) == lower(splitext(asset.filename)[2]) = <<".", "s", "i", "s">>

IsStandalone(asset) ==
    lower(splitext(asset.filename)[2]) \in {<<".", "a", "p", "p">>, <<".", "o", "p", "a">>}

\* The file is decoded, and its name table has no recognized language.
NoRecognizedName(asset) ==
    \/ /\ IsInstaller(asset)
       /\ dumpsis(asset.data).raises = "none"
       /\ select_name(dumpsis(asset.data).name).raises = "MissingName"
    \/ /\ IsStandalone(asset)
       /\ LET target == IF asset.sibling = None THEN asset.data ELSE asset.sibling[1]
          IN  /\ dumpaif(target).raises = "none"
              /\ select_name(dumpaif(target).captions).raises = "MissingName"

\* The releases of the releases index built for the pair.
ReleasesFor(asset) ==
    {k \in 1..Len(releases_json[1]) :
        /\ releases_json[1][k].reference
              = [i \in 1..Len(asset.reference) |->
                    [name |-> asset.reference[i].name, url |-> asset.reference[i].url]]
        /\ releases_json[1][k].filename = asset.filename}

\* C11: once index has written the releases index, no file whose name
\* table has no recognized language (installer or standalone) has a release
\* in it, and the error channel has the entry of its content hash (one
\* entry per hash, however many files of that hash were met).
C11_MissingNameExcluded ==
    Indexed =>
        \A k \in 1..Len(imported) :
            NoRecognizedName(imported[k]) =>
                /\ ReleasesFor(imported[k]) = {}
                /\ shasum(imported[k].data) \in DOMAIN errors_directory

\* The part of C11 about installers alone.
C11_InstallerPart ==
    Indexed =>
        \A k \in 1..Len(imported) :
            NoRecognizedName(imported[k]) /\ IsInstaller(imported[k]) =>
                /\ ReleasesFor(imported[k]) = {}
                /\ shasum(imported[k].data) \in DOMAIN errors_directory

\* The decoding of the file fails: the installer structure, or the icon
\* resource the file comes with (inside the installer, next to the
\* standalone file, or the standalone file itself).
DecodeFails(asset) ==
    \/ /\ IsInstaller(asset)
       /\ \/ dumpsis(asset.data).raises # "none"
          \/ /\ EmbeddedAif(asset.data) # None
             /\ get_icons(EmbeddedAif(asset.data)[1]).raises # "none"
    \/ /\ IsStandalone(asset)
       /\ LET target == IF asset.sibling = None THEN asset.data ELSE asset.sibling[1]
          IN  \/ dumpaif(target).raises # "none"
              \/ get_icons(target).raises # "none"

\* C12: once index has written the releases index, every file whose
\* decoding failed has an entry in the error channel and no release in the
\* releases index: no release is built for a file the error handler was
\* invoked for.
C12_DecodeFailureExcluded ==
    Indexed =>
        \A k \in 1..Len(imported) :
            DecodeFails(imported[k]) =>
                /\ errors_directory # <<>>
                /\ ReleasesFor(imported[k]) = {}

\* The part of C12 about the error channel alone.
C12_ReportedPart ==
    Indexed =>
        \A k \in 1..Len(imported) :
            DecodeFails(imported[k]) => errors_directory # <<>>

(***************************************************************************)
(* The run of index to its end.  index is one sequential loop whose every  *)
(* turn ends, so a step that can be taken is taken.                        *)
(***************************************************************************)
\* The files of the run to the end: an installer that decodes, one with no
\* recognized name, one that does not decode, a standalone file that does
\* not decode, one whose companion has no recognized name, and a file
\* index has no use for.
RunKinds == <<1, 4, 5, 7, 10, 11>>

InitIndexRun ==
    /\ \E n \in 0..MaxRun :
        \E kinds \in [1..n -> 1..Len(RunKinds)] :
            assets = [i \in 1..n |-> Asset(RunKinds[kinds[i]], i)]
    /\ imported = <<>>
    /\ apps = <<>>
    /\ files_directory = {}
    /\ errors_directory = <<>>
    /\ releases_json = None
    /\ programs = <<>>
    /\ summary = None
    /\ group_index = <<>>
    /\ ipc = "index"
    /\ WalkIdle
    /\ IconIdle
    /\ OverlayIdle
    /\ SourceIdle
    /\ RegistryIdle

SpecIndexFair ==
    InitIndexRun /\ [][NextIndex]_vars /\ WF_vars(ImportAsset) /\ WF_vars(IndexWrite)

\* The file fails: its decoding fails or it has no recognized name.
Fails(asset) == DecodeFails(asset) \/ NoRecognizedName(asset)

\* The source's files in the order it yields them: the ones taken, then
\* the ones to come (the n-th file has n in its name).
StreamKept ==
    LET stream == imported \o assets
    IN  \A n \in 1..Len(stream) : stream[n].filename[2] = Digit(n)

\* Every installer or standalone file that did not fail has its release in
\* the releases index, under its content hash.
GoodReleased ==
    \A k \in 1..Len(imported) :
        /\ IsInstaller(imported[k]) \/ IsStandalone(imported[k])
        /\ ~Fails(imported[k])
        => /\ Cardinality(ReleasesFor(imported[k])) = 1
           /\ \A r \in ReleasesFor(imported[k]) :
                 /\ releases_json[1][r].sha256 = shasum(imported[k].data)
                 /\ releases_json[1][r].size = getsize(imported[k].data)

\* C13: no file of the source is skipped or taken out of turn, and the run
\* comes to its end: index takes every file the source yields, whichever
\* of them fail, and writes a releases index that has the release of every
\* file that did not fail.
C13_RunCompletes ==
    /\ [](StreamKept /\ (Indexed => assets = <<>> /\ GoodReleased))
    /\ <>(Indexed /\ assets = <<>> /\ releases_json # None /\ GoodReleased)

\* index has written the releases index after a file that failed was
\* followed by a file that did not, whose release is in the index.
C13_Witness ==
    /\ Indexed
    /\ \E j, k \in 1..Len(imported) :
          /\ j < k
          /\ Fails(imported[j])
          /\ ReleasesFor(imported[j]) = {}
          /\ ~Fails(imported[k])
          /\ ReleasesFor(imported[k]) # {}

(***************************************************************************)
(* The overlay merger.  A dict of json is a function from its keys.        *)
(***************************************************************************)
\* d[key] = value, in place.
SetKey(d, key, value) ==
    [k \in DOMAIN d \cup {key} |-> IF k = key THEN value ELSE d[k]]

\* Version.as_dict: the items of the variants lose the bpp of their icon.
Version_as_dict(version) ==
    [version |-> VersionOf(version),
     variants |->
        [w \in 1..Len(version.variants) |->
            [identifier |-> version.variants[w].identifier,
             items |->
                [i \in 1..Len(version.variants[w].items) |->
                    LET item == version.variants[w].items[i]
                    IN  IF item.icon = None THEN item
                        ELSE [item EXCEPT !.icon = Some([path |-> item.icon[1].path,
                                                         width |-> item.icon[1].width,
                                                         height |-> item.icon[1].height])]]]]]

\* Program.as_dict: no summary is known, and the icon is there when one
\* was selected (the set of the tags stands for their sorted list).
Program_as_dict(program) ==
    LET dict == [uid |-> program.uid, name |-> ProgramName(program), summary |-> None,
                 versions |-> [v \in 1..Len(program.versions) |->
                                  Version_as_dict(program.versions[v])],
                 tags |-> program.tags, kinds |-> program.kinds]
        chosen == ProgramIcon(program)
    IN  IF chosen = None THEN dict
        ELSE SetKey(dict, "icon", [path |-> chosen[1].path, width |-> chosen[1].width,
                                   height |-> chosen[1].height])

\* programs.json as group writes it and overlay loads it.
programs_json == [g \in 1..Len(programs) |-> Program_as_dict(programs[g])]

\* The icons store: the icons the releases wrote.
IconsStore ==
    IF releases_json = None THEN {}
    ELSE UNION {{releases_json[1][k].icons[i].filename : i \in 1..Len(releases_json[1][k].icons)} :
                    k \in 1..Len(releases_json[1])}

\* The files of an overlay: screenshots with their pixel sizes (a file
\* that is no image has none), other files, and front matter documents.
Shot(name, width, height) == [name |-> name, size |-> Some(<<width, height>>)]

ShotA == Shot(<<"b", ".", "p", "n", "g">>, 640, 240)
ShotB == Shot(<<"a", ".", "p", "n", "g">>, 480, 160)
ShotBad == [name |-> <<"c", ".", "p", "n", "g">>, size |-> None]
Notes == [name |-> <<"n", ".", "t", "x", "t">>, size |-> None]

Document(content, metadata) == Some([content |-> content, metadata |-> metadata])

\* The entries of an overlay directory: identifier, files in the order
\* os.listdir gives them, and index.md when there is one.
OverlayEntry(identifier, files, index) ==
    [identifier |-> identifier, files |-> files, index |-> index]

UidA == Hex08(268435457)
UidF == Hex08(43981)
Hidden == <<".", "g", "i", "t">>

OverlayDirectories ==
    << <<OverlayEntry(UidA, <<ShotA, ShotB, Notes>>, Document("about", ("category" :> "game")))>>,
       <<OverlayEntry(UidA, <<ShotB>>, None), OverlayEntry(Hidden, <<>>, None)>>,
       <<OverlayEntry(UidF, <<>>, Document("text", ("name" :> "renamed"))),
         OverlayEntry(Hex08(1), <<ShotA>>, None)>>,
       <<OverlayEntry(UidF, <<ShotB, ShotBad>>, None)>> >>

\* The overlay dict of overlay: for every identifier the png files of the
\* last directory that has it, and the document of the last that has one.
RECURSIVE ImportOverlay(_, _)
ImportOverlay(entries, imports) ==
    IF entries = <<>> THEN imports
    ELSE LET e == Head(entries)
             pngs == SelectSeq(e.files, LAMBDA f : endswith(f.name, <<".", "p", "n", "g">>))
             before == IF e.identifier \in DOMAIN imports THEN imports[e.identifier]
                       ELSE <<>>
             with_shots == SetKey(before, "screenshots", pngs)
             entry == IF e.index = None THEN with_shots
                      ELSE SetKey(with_shots, "index", e.index[1])
         IN  ImportOverlay(Tail(entries),
                           IF startswith(e.identifier, <<".">>) THEN imports
                           ELSE SetKey(imports, e.identifier, entry))

\* The metadata of the merge loop: the content of the document becomes
\* the description, and its front matter is injected over the keys.
InjectMetadata(application, entry) ==
    LET described == IF "index" \in DOMAIN entry
                     THEN SetKey(application, "description", entry.index.content)
                     ELSE application
        keys == IF "index" \in DOMAIN entry THEN DOMAIN entry.index.metadata ELSE {}
    IN  [k \in DOMAIN described \cup keys |->
            IF k \in keys THEN entry.index.metadata[k] ELSE described[k]]

\* The screenshots of an entry in the order of their sorted paths.
SortedScreenshots(entry) ==
    LET screenshots == IF "screenshots" \in DOMAIN entry THEN entry.screenshots ELSE <<>>
    IN  sorted(screenshots, [k \in 1..Len(screenshots) |-> StrKey(screenshots[k].name)])

\* The screenshots of the merge loop: the directory of the application is
\* made, then the files are copied in order, up to a file PIL cannot open.
CopyScreenshots(application, ordered, shots) ==
    LET identifier == application.uid
        bad == {k \in 1..Len(ordered) : ordered[k].size = None}
        last == IF bad = {} THEN Len(ordered) ELSE CHOOSE k \in bad : \A j \in bad : k <= j
        relative_paths == [k \in 1..Len(ordered) |->
                              [width |-> ordered[k].size[1][1], height |-> ordered[k].size[1][2],
                               path |-> <<"screenshots", identifier, ordered[k].name>>]]
    IN  IF identifier \in DOMAIN shots
        THEN [application |-> application, shots |-> shots, error |-> "FileExistsError"]
        ELSE [application |-> IF bad = {} THEN SetKey(application, "screenshots", relative_paths)
                              ELSE application,
              shots |-> SetKey(shots, identifier, {ordered[k].name : k \in 1..last}),
              error |-> IF bad = {} THEN "none" ELSE "UnidentifiedImageError"]

\* The body of the merge loop for an application that has an overlay
\* entry.
MergeApplication(application, entry, shots) ==
    CopyScreenshots(InjectMetadata(application, entry), SortedScreenshots(entry), shots)

\* The index and the screenshots directory after the body of the loop ran
\* for application k: an exception leaves the index as it was.
Merged_into(acc, k, merged) ==
    [index |-> IF merged.error = "none" THEN [acc.index EXCEPT ![k] = merged.application]
               ELSE acc.index,
     shots |-> merged.shots,
     error |-> merged.error]

\* One turn of the merge loop: an application without an overlay entry is
\* skipped.
MergeOne(acc, imports, k) ==
    IF acc.index[k].uid \notin DOMAIN imports THEN acc
    ELSE Merged_into(acc, k,
                     MergeApplication(acc.index[k], imports[acc.index[k].uid], acc.shots))

\* The merge loop over the applications of the index, to its end or to
\* the first exception.
RECURSIVE MergeOverlay(_, _, _)
MergeOverlay(acc, imports, k) ==
    IF k > Len(acc.index) \/ acc.error # "none" THEN acc
    ELSE MergeOverlay(MergeOne(acc, imports, k), imports, k + 1)

\* The five paths overlay writes under the output directory, none there.
NoOutput == [data |-> None, screenshots |-> None, files |-> None, icons |-> None, api |-> None]

\* The end of overlay: the index is written, then the stores and the API
\* are copied; an exception of the merge loop ends the run before.
WriteOutput(found, merged) ==
    LET data0 == IF found.data = None THEN <<>> ELSE found.data[1]
        dirs == [found EXCEPT !.data = Some(data0), !.screenshots = Some(merged.shots)]
        data == SetKey(SetKey(SetKey(data0, "summary", summary), "groups", group_index),
                       "programs", merged.index)
        written == [dirs EXCEPT !.data = Some(data)]
        with_files == [written EXCEPT !.files = Some(files_directory)]
        copied == [with_files EXCEPT !.icons = Some(IconsStore)]
    IN  IF merged.error # "none" THEN [output |-> dirs, error |-> merged.error]
        ELSE IF found.files # None THEN [output |-> written, error |-> "FileExistsError"]
        ELSE IF found.icons # None THEN [output |-> with_files, error |-> "FileExistsError"]
        ELSE IF found.api # None THEN [output |-> copied, error |-> "FileExistsError"]
        ELSE [output |-> [copied EXCEPT
                             !.api = Some([icons |-> copied.icons[1],
                                           screenshots |-> merged.shots,
                                           programs |-> merged.index, summary |-> summary,
                                           groups |-> group_index])],
              error |-> "none"]

\* overlay from the output directory as found to the one it leaves, with
\* the exception that ended it: load the overlays, merge, write the index,
\* copy the stores and the API.
RunOverlay(found) ==
    WriteOutput(found,
                MergeOverlay([index |-> programs_json,
                              shots |-> IF found.screenshots = None THEN <<>>
                                        ELSE found.screenshots[1],
                              error |-> "none"],
                             ImportOverlay(Flatten(overlay_directories), <<>>), 1))

\* overlay without the clean up of the destination paths.
Overlay_keeps ==
    /\ ipc = "grouped"
    /\ overlay_runs.count < MaxRuns
    /\ LET done == RunOverlay(IF output_directory = None THEN NoOutput ELSE output_directory[1])
       IN  /\ output_directory' = Some(done.output)
           /\ overlay_runs' = [count |-> overlay_runs.count + 1, error |-> done.error]
    /\ UNCHANGED <<overlay_directories, indexVars, walkVars, iconVars, sourceVars, registryVars>>

\* overlay: the destination paths are removed first.
Overlay ==
    /\ ipc = "grouped"
    /\ overlay_runs.count < MaxRuns
    /\ LET done == RunOverlay(NoOutput)
       IN  /\ output_directory' = Some(done.output)
           /\ overlay_runs' = [count |-> overlay_runs.count + 1, error |-> done.error]
    /\ UNCHANGED <<overlay_directories, indexVars, walkVars, iconVars, sourceVars, registryVars>>

(***************************************************************************)
(* The runs of index, group and overlay over a library.                    *)
(***************************************************************************)
\* The files of the libraries overlay runs on: two versions of one
\* program, another program, and a standalone file.
OverlayKinds == <<1, 2, 6, 7>>

InitOverlay ==
    /\ \E n \in 0..MaxPrograms :
        \E kinds \in [1..n -> 1..Len(OverlayKinds)] :
            assets = [i \in 1..n |-> Asset(OverlayKinds[kinds[i]], i)]
    /\ imported = <<>>
    /\ apps = <<>>
    /\ files_directory = {}
    /\ errors_directory = <<>>
    /\ releases_json = None
    /\ programs = <<>>
    /\ summary = None
    /\ group_index = <<>>
    /\ ipc = "index"
    /\ \E n \in 0..MaxOverlays :
        \E which \in [1..n -> 1..Len(OverlayDirectories)] :
            overlay_directories = [i \in 1..n |-> OverlayDirectories[which[i]]]
    /\ output_directory = None
    /\ overlay_runs = [count |-> 0, error |-> "none"]
    /\ WalkIdle
    /\ IconIdle
    /\ SourceIdle
    /\ RegistryIdle

\* The commands index, group and overlay, run in this order.
NextOverlay ==
    \/ ImportAsset
    \/ IndexWrite
    \/ Group
    \/ Overlay

SpecOverlay == InitOverlay /\ [][NextOverlay]_vars

(***************************************************************************)
(* Properties of the overlay merger.                                       *)
(***************************************************************************)
\* The identifiers that have an overlay entry.
OverlayIdentifiers ==
    {e.identifier : e \in {Flatten(overlay_directories)[k] :
                              k \in 1..Len(Flatten(overlay_directories))}}
        \ {Hidden}

\* The programs overlay wrote, after a run that ended without exception.
Merged == output_directory[1].data[1].programs

\* C14: a run of overlay that follows another one, with the same grouped
\* index and the same overlay directories, leaves under the output
\* directory exactly what it found there (programs data, screenshots,
\* files, icons and API copies), and ends as the run before it ended.
C14_Idempotent ==
    [][overlay_runs.count >= 1 =>
          /\ output_directory' = output_directory
          /\ overlay_runs'.error = overlay_runs.error]_vars

\* overlay has run twice, both runs to their end, on programs one of
\* which has screenshots and metadata in the overlay.
C14_Witness ==
    /\ overlay_runs = [count |-> 2, error |-> "none"]
    /\ \E g \in 1..Len(Merged) :
          /\ "screenshots" \in DOMAIN Merged[g]
          /\ Len(Merged[g].screenshots) >= 2
          /\ "description" \in DOMAIN Merged[g]
    /\ output_directory[1].api # None

\* C15 as claimed: after overlay, every program of the merged output has
\* a screenshot list, and a program whose uid has no overlay entry has an
\* empty one and is otherwise as group wrote it.
C15_EmptyScreenshots ==
    overlay_runs.count >= 1 /\ overlay_runs.error = "none" =>
        /\ Len(Merged) = Len(programs_json)
        /\ \A g \in 1..Len(Merged) :
              /\ "screenshots" \in DOMAIN Merged[g]
              /\ Merged[g].uid \notin OverlayIdentifiers =>
                    /\ Merged[g].screenshots = <<>>
                    /\ \A k \in DOMAIN programs_json[g] : Merged[g][k] = programs_json[g][k]

\* The part of C15 about the pass through alone.
C15_PassedThrough ==
    overlay_runs.count >= 1 /\ overlay_runs.error = "none" =>
        /\ Len(Merged) = Len(programs_json)
        /\ \A g \in 1..Len(Merged) :
              Merged[g].uid \notin OverlayIdentifiers => Merged[g] = programs_json[g]

(***************************************************************************)
(* The order of the Program list.                                          *)
(***************************************************************************)
\* The case-folded name of a program, then its uid, as a sort key.
NameUidKey(program) ==
    <<StrKey(lower(ProgramName(program)))[1], StrKey(program.uid)[1]>>

\* C16 as claimed: after group, the programs are in ascending order of
\* their case-folded names, and programs of equal case-folded names in
\* ascending order of their uids, so that the order is the same in
\* whatever order the releases were found.
C16_OrderedByNameThenUid ==
    Grouped =>
        \A g \in 1..(Len(programs) - 1) :
            KeyLess(NameUidKey(programs[g]), NameUidKey(programs[g + 1]))

\* The part of C16 about the names alone.
C16_OrderedByName ==
    Grouped =>
        \A g \in 1..(Len(programs) - 1) :
            ~IntSeqLess(NameUidKey(programs[g + 1])[1], NameUidKey(programs[g])[1])

(***************************************************************************)
(* The sources and their resolve_reference.  A url is a sequence of text:  *)
(* the url of the source as one piece, then the characters added to it.    *)
(***************************************************************************)
\* The text of a relative path: its components with "/" between them.
RECURSIVE RelStr(_)
RelStr(p) ==
    IF Len(p) <= 1 THEN (IF p = <<>> THEN <<>> ELSE Head(p))
    ELSE Head(p) \o <<"/">> \o RelStr(Tail(p))

\* urllib.parse.quote_plus: letters, digits and "_.-~" stay, a space
\* becomes "+", any other character "%" and its code in hex.
RECURSIVE quote_plus(_)
quote_plus(str) ==
    IF str = <<>> THEN <<>>
    ELSE (CASE Head(str) = " " -> <<"+">>
            [] Head(str) = "/" -> <<"%", "2", "F">>
            [] Head(str) = "+" -> <<"%", "2", "B">>
            [] OTHER -> <<Head(str)>>) \o quote_plus(Tail(str))

InternetArchiveSource ==
    [kind |-> "archive", title |-> "Item",
     url |-> <<"https://archive.org/download/item/files">>,
     html_url |-> <<"https://archive.org/details/item">>]

SnapshotSource ==
    [kind |-> "snapshot", title |-> "Site", snapshot_url |-> <<"http://site.example">>]

\* source_reference of the assets of either source.
source_reference(src) ==
    IF src.kind = "archive" THEN ReferenceItem(src.title, Some(src.html_url))
    ELSE ReferenceItem(src.title, Some(src.snapshot_url))

resolve_root_reference_item(src, reference_item) ==
    ReferenceItem(reference_item.name, Some(src.url))

\* resolve_first_tier_reference_item that leaves the item as it is.
resolve_first_tier_unlinked(src, reference_item) == reference_item

resolve_first_tier_reference_item(src, reference_item) ==
    ReferenceItem(reference_item.name,
                  Some(src.url \o <<"/">> \o quote_plus(RelStr(reference_item.name))))

\* make_link that leaves the item as it is.
make_link_unlinked(src, reference_item) == reference_item

make_link(src, reference_item) ==
    ReferenceItem(reference_item.name,
                  Some(src.snapshot_url \o <<"/">> \o RelStr(reference_item.name)))

\* resolve_reference that answers no chain with less than the source and a
\* root item.
resolve_reference_padded(src, reference) ==
    IF Len(reference) < 1
    THEN <<source_reference(src), ReferenceItem(<<>>, Some(<<>>))>>
    ELSE IF src.kind = "archive"
    THEN <<source_reference(src), resolve_root_reference_item(src, reference[1])>>
    ELSE <<source_reference(src), make_link(src, reference[1])>>

\* resolve_reference of InternetArchiveSource.assets and of
\* SnapshotSource.assets.
resolve_reference(src, reference) ==
    IF src.kind = "archive"
    THEN IF Len(reference) < 1 THEN <<source_reference(src)>>
         ELSE IF Len(reference) = 1
         THEN <<source_reference(src), resolve_root_reference_item(src, reference[1])>>
         ELSE <<source_reference(src), resolve_root_reference_item(src, reference[1])>>
                 \o <<resolve_first_tier_reference_item(src, reference[2])>>
                 \o SubSeq(reference, 3, Len(reference))
    ELSE LET contents_reference == SubSeq(reference, 2, Len(reference))
         IN  IF Len(contents_reference) < 1 THEN <<source_reference(src)>>
             ELSE <<source_reference(src)>> \o <<make_link(src, contents_reference[1])>>
                     \o Tail(contents_reference)

\* The names of the items walk yields to a source.
NameContents == <<"c", "o", "n", "t", "e", "n", "t", "s">> \o ExtTarGz
NameSpaced == <<"m", "y", " ", "a", "p", "p">> \o ExtZip

ItemNames == << <<NameContents>>, <<NameSpaced>>, <<NameD, NameXApp>>, <<NameASis>> >>

InitSource ==
    /\ asset_source \in {Some(InternetArchiveSource), Some(SnapshotSource)}
    /\ \E n \in 0..MaxChain :
        \E names \in [1..n -> 1..Len(ItemNames)] :
            raw_reference = [i \in 1..n |-> ReferenceItem(ItemNames[names[i]], None)]
    /\ resolved = None
    /\ published = None
    /\ configured_url = <<>>
    /\ created = None
    /\ commands = <<>>
    /\ WalkIdle
    /\ IndexIdle
    /\ IconIdle
    /\ OverlayIdle
    /\ RegistryIdle

\* One turn of the loop of assets: the reference walk yielded is resolved.
ResolveReference ==
    /\ resolved = None
    /\ resolved' = Some(resolve_reference(asset_source[1], raw_reference))
    /\ UNCHANGED <<asset_source, raw_reference, published, configured_url, created, commands>>
    /\ UNCHANGED <<walkVars, indexVars, iconVars, overlayVars, registryVars>>

\* The file of a reference: its name is the last component of the name of
\* the last item, its bytes those of an installer or of an application,
\* as its suffix says.
LeafAsset(reference, resolved_reference) ==
    LET filename == basename(reference[Len(reference)].name)
        ext == lower(splitext(filename)[2])
    IN  [filename |-> filename,
         data |-> IF ext = <<".", "s", "i", "s">> THEN "sisA"
                  ELSE IF ext = <<".", "a", "p", "p">> THEN "appX" ELSE "text",
         sibling |-> None,
         reference |-> resolved_reference]

\* The body of the loop of import_source for the file and the reference
\* the source yields, and the dicts index writes for it.
PublishRelease ==
    /\ resolved # None
    /\ published = None
    /\ raw_reference # <<>>
    /\ LET done == import_one(LeafAsset(raw_reference, resolved[1]))
       IN  published' = Some([k \in 1..Len(done.release) |-> Release_as_dict(done.release[k])])
    /\ UNCHANGED <<asset_source, raw_reference, resolved, configured_url, created, commands>>
    /\ UNCHANGED <<walkVars, indexVars, iconVars, overlayVars, registryVars>>

NextSource ==
    \/ ResolveReference
    \/ PublishRelease

SpecSource == InitSource /\ [][NextSource]_vars

(***************************************************************************)
(* Properties of the reference resolver.                                   *)
(***************************************************************************)
Resolved == resolved # None

\* Percent-encoding of a name as one path segment: every character that
\* is no letter, digit or one of "_.-~" becomes "%" and its code in hex.
RECURSIVE PercentEncoded(_)
PercentEncoded(str) ==
    IF str = <<>> THEN <<>>
    ELSE (CASE Head(str) = " " -> <<"%", "2", "0">>
            [] Head(str) = "/" -> <<"%", "2", "F">>
            [] Head(str) = "+" -> <<"%", "2", "B">>
            [] OTHER -> <<Head(str)>>) \o PercentEncoded(Tail(str))

\* What C17 says of an archive-style source, with the encoding given.
ArchiveResolved(encoded) ==
    LET src == asset_source[1]
        chain == resolved[1]
    IN  /\ Len(chain) = Len(raw_reference) + 1
        /\ \A i \in 1..Len(raw_reference) :
              /\ chain[i + 1].name = raw_reference[i].name
              /\ i = 1 => chain[i + 1].url = Some(src.url)
              /\ i = 2 => chain[i + 1].url = Some(src.url \o <<"/">> \o encoded[i])
              /\ i >= 3 => chain[i + 1] = raw_reference[i] /\ chain[i + 1].url = None

\* C17 as claimed: for an archive-style source, the item the walk yielded
\* at position 0 is given the url of the source, the item at position 1
\* that url, "/" and its percent-encoded name, and every item at position
\* 2 or more is returned as it was, its url unset.
C17_ArchiveResolved ==
    Resolved /\ asset_source[1].kind = "archive" =>
        ArchiveResolved([i \in 1..Len(raw_reference) |->
                            PercentEncoded(RelStr(raw_reference[i].name))])

\* C17 with the encoding of quote_plus in the place of percent-encoding.
C17_ArchiveResolvedPlus ==
    Resolved /\ asset_source[1].kind = "archive" =>
        ArchiveResolved([i \in 1..Len(raw_reference) |->
                            quote_plus(RelStr(raw_reference[i].name))])

C19_EdgeCases ==
    Resolved =>
        LET src == asset_source[1]
            chain == resolved[1]
        IN  /\ Len(raw_reference) = 0 => chain = <<source_reference(src)>>
            /\ Len(raw_reference) = 1 =>
                  /\ Len(chain) = 2
                  /\ chain[1] = source_reference(src)
                  /\ chain[2].name = raw_reference[1].name
                  /\ chain[2].url # None

\* C19 amended: the empty chain resolves to the source's own reference
\* alone for both kinds of source.  A chain of one item resolves to two
\* items for an archive-style source (the source's own reference, then an
\* item with the name of the chain's item and the url of the source), and
\* to the source's own reference alone for a snapshot-style source, which
\* drops the first item of every chain; there a chain of two items
\* resolves to two: the source's own reference, then an item with the name
\* of the second item and a url.
C19_EdgeCasesByKind ==
    Resolved =>
        LET src == asset_source[1]
            chain == resolved[1]
            edge == IF src.kind = "archive" THEN 1 ELSE 2
        IN  /\ Len(raw_reference) = 0 => chain = <<source_reference(src)>>
            /\ Len(raw_reference) = 1 /\ src.kind = "snapshot" =>
                  chain = <<source_reference(src)>>
            /\ Len(raw_reference) = edge =>
                  /\ Len(chain) = 2
                  /\ chain[1] = source_reference(src)
                  /\ chain[2].name = raw_reference[edge].name
                  /\ chain[2].url # None
                  /\ src.kind = "archive" => chain[2].url = Some(src.url)

\* A snapshot-style source has resolved a chain of one item.
C19_Witness ==
    /\ Resolved
    /\ asset_source[1].kind = "snapshot"
    /\ Len(raw_reference) = 1
    /\ Len(resolved[1]) = 1

\* The chains walk yields to the assets of the source: one item or more,
\* no url set; for a snapshot the first item is the contents archive the
\* walk starts on, which holds the files.
WalkYields ==
    /\ Len(raw_reference) >= 1
    /\ \A i \in 1..Len(raw_reference) : raw_reference[i].url = None
    /\ asset_source[1].kind = "snapshot" =>
          /\ Len(raw_reference) >= 2
          /\ raw_reference[1].name = <<NameContents>>

Published == published # None /\ published[1] # <<>>

\* C21 as claimed: for both kinds of source, the reference list of the
\* published release holds the source's own reference and then the names
\* of all the items of the chain walk yielded, in the order of the chain.
C21_OrderPreserved ==
    Published /\ WalkYields =>
        Names(published[1][1].reference)
            = <<source_reference(asset_source[1]).name>> \o Names(raw_reference)

\* C21 amended: the reference list of the published release holds the
\* source's own reference and then, in the order of the chain and each
\* once, the names of the items of the chain walk yielded: of all of them
\* for an archive-style source, of all but the first for a snapshot-style
\* source, where the first item is the snapshot's own contents archive and
\* the source's own reference stands in its place.
C21_OrderPreservedByKind ==
    Published /\ WalkYields =>
        LET hops == IF asset_source[1].kind = "archive" THEN raw_reference
                    ELSE Tail(raw_reference)
        IN  Names(published[1][1].reference)
                = <<source_reference(asset_source[1]).name>> \o Names(hops)

\* The release of a file a snapshot-style source found two containers
\* deep, under items of different names, is published.
C21_Witness ==
    /\ Published
    /\ WalkYields
    /\ asset_source[1].kind = "snapshot"
    /\ Len(raw_reference) = 3
    /\ raw_reference[2].name # raw_reference[3].name
    /\ Len(published[1][1].reference) = 3

(***************************************************************************)
(* The library's sources: create_source and the constructors of the two    *)
(* kinds of source.  A url is the sequence of its characters.              *)
(***************************************************************************)
Scheme == <<"h", "t", "t", "p", "s", ":", "/", "/">>
HostArchive == <<"a", "r", "c", "h", "i", "v", "e", ".", "o", "r", "g">>
HostSnapshots == <<"f", "0", "0", "2", ".", "b", "a", "c", "k", "b", "l", "a", "z", "e", "b", "2", ".", "c", "o", "m">>
HostOther == <<"e", "x", "a", "m", "p", "l", "e", ".", "c", "o", "m">>

SegDownload == <<"d", "o", "w", "n", "l", "o", "a", "d">>
SegDetails == <<"d", "e", "t", "a", "i", "l", "s">>
SegItem == <<"i", "t", "e", "m">>
SegZip == <<"a", ".", "Z", "I", "P">>
SegFile == <<"f", "i", "l", "e">>
SegSnapshots == <<"p", "s", "i", "o", "n", "-", "s", "o", "f", "t", "w", "a", "r", "e", "-", "i", "n", "d", "e", "x", "-", "s", "n", "a", "p", "s", "h", "o", "t", "s">>
SegTarGz == <<"s", "+", "1", ".", "t", "a", "r", ".", "g", "z">>

SNAPSHOTS_BASE_URL ==
    Scheme \o HostSnapshots \o <<"/">> \o SegFile \o <<"/">> \o SegSnapshots \o <<"/">>

ARCHIVE_EXTENSIONS == {ExtZip, ExtIso}

\* str.split("/"): the pieces between the slashes, one at least.
RECURSIVE split(_)
split(str) ==
    LET slashes == {i \in 1..Len(str) : str[i] = "/"}
        cut == CHOOSE i \in slashes : \A j \in slashes : i <= j
    IN  IF slashes = {} THEN <<str>>
        ELSE <<SubSeq(str, 1, cut - 1)>> \o split(SubSeq(str, cut + 1, Len(str)))

\* urlparse of a url that starts with "https://": the host name, in lower
\* case, is what comes before the first "/", the path is the rest.
urlparse(url) ==
    LET rest == SubSeq(url, Len(Scheme) + 1, Len(url))
        slashes == {i \in 1..Len(rest) : rest[i] = "/"}
        cut == IF slashes = {} THEN Len(rest) + 1
               ELSE CHOOSE i \in slashes : \A j \in slashes : i <= j
    IN  [hostname |-> lower(SubSeq(rest, 1, cut - 1)),
         path |-> SubSeq(rest, cut, Len(rest))]

\* str.replace("+", " ").
replace_plus(str) == [i \in 1..Len(str) |-> IF str[i] = "+" THEN " " ELSE str[i]]

\* The end of InternetArchiveSource.__init__ once the id is known:
\* os.path.join of no component at all raises TypeError.
InternetArchiveSource_paths(root_directory, url, id, path_components) ==
    IF Len(path_components) <= 2
    THEN [raises |-> "TypeError", source |-> None]
    ELSE [raises |-> "none",
          source |-> Some([kind |-> "archive", url |-> url, id |-> id,
                           item_directory |-> root_directory \o <<id>>,
                           relative_path |-> SubSeq(path_components, 3, Len(path_components)),
                           path |-> root_directory \o <<id>>
                                      \o SubSeq(path_components, 3, Len(path_components))])]

\* InternetArchiveSource.__init__: an index past the end of the path
\* components raises IndexError.
InternetArchiveSource_init(root_directory, url) ==
    LET url_components == urlparse(url)
        path_components == Tail(split(url_components.path))
        inside == {k \in 1..(Len(path_components) - 1) :
                      lower(splitext(path_components[k])[2]) \in ARCHIVE_EXTENSIONS}
    IN  IF url_components.hostname # HostArchive
        THEN [raises |-> "UnsupportedURL", source |-> None]
        ELSE IF path_components = <<>>
        THEN [raises |-> "IndexError", source |-> None]
        ELSE IF path_components[1] = SegDownload
        THEN IF inside # {} THEN [raises |-> "UnsupportedURL", source |-> None]
             ELSE IF Len(path_components) < 2 THEN [raises |-> "IndexError", source |-> None]
             ELSE InternetArchiveSource_paths(root_directory, url, path_components[2],
                                              path_components)
        ELSE IF path_components[1] = SegDetails /\ Len(path_components) = 2
        THEN InternetArchiveSource_paths(root_directory, url, path_components[2],
                                         path_components)
        ELSE [raises |-> "UnsupportedURL", source |-> None]

\* SnapshotSource.__init__.
SnapshotSource_init(root_directory, url) ==
    LET url_components == urlparse(url)
        pieces == split(url_components.path)
        filename == pieces[Len(pieces)]
        stem == SubSeq(filename, 1, Len(filename) - Len(ExtTarGz))
        identifier == replace_plus(stem)
    IN  IF ~startswith(url, SNAPSHOTS_BASE_URL) \/ ~endswith(url, ExtTarGz)
        THEN [raises |-> "UnsupportedURL", source |-> None]
        ELSE [raises |-> "none",
              source |-> Some([kind |-> "snapshot", url |-> url,
                               path |-> root_directory \o <<<<"snapshots">>, identifier>>,
                               identifier |-> identifier])]

create_source(assets_directory, url) ==
    IF urlparse(url).hostname = HostArchive
    THEN InternetArchiveSource_init(assets_directory, url)
    ELSE IF startswith(url, SNAPSHOTS_BASE_URL)
    THEN SnapshotSource_init(assets_directory, url)
    ELSE [raises |-> "UnsupportedURL", source |-> None]

\* The urls of the configurations: a host, then up to MaxSegments
\* segments, a "/" before each.
Hosts == <<HostArchive, HostSnapshots, HostOther>>
Segments == << <<>>, SegDownload, SegDetails, SegItem, SegZip, SegFile, SegSnapshots, SegTarGz>>

RECURSIVE PathOf(_)
PathOf(segments) ==
    IF segments = <<>> THEN <<>>
    ELSE <<"/">> \o Head(segments) \o PathOf(Tail(segments))

Commands == {"sync", "index", "group", "overlay"}

InitLibrary ==
    /\ \E h \in 1..Len(Hosts) : \E n \in 0..MaxSegments :
        \E which \in [1..n -> 1..Len(Segments)] :
            configured_url = Scheme \o Hosts[h] \o PathOf([i \in 1..n |-> Segments[which[i]]])
    /\ created = None
    /\ commands = <<>>
    /\ asset_source = None
    /\ raw_reference = <<>>
    /\ resolved = None
    /\ published = None
    /\ WalkIdle
    /\ IndexIdle
    /\ IconIdle
    /\ OverlayIdle
    /\ RegistryIdle

\* Library.__init__: the source of the configured url is created.
LoadLibrary ==
    /\ created = None
    /\ created' = Some(create_source(<<NameLib>>, configured_url))
    /\ UNCHANGED <<asset_source, raw_reference, resolved, published, configured_url, commands>>
    /\ UNCHANGED <<walkVars, indexVars, iconVars, overlayVars, registryVars>>

\* main: with the library loaded, the next command of the command line
\* is run.
RunCommand ==
    /\ created # None
    /\ created[1].raises = "none"
    /\ Len(commands) < MaxCommands
    /\ \E command \in Commands : commands' = Append(commands, command)
    /\ UNCHANGED <<asset_source, raw_reference, resolved, published, configured_url, created>>
    /\ UNCHANGED <<walkVars, indexVars, iconVars, overlayVars, registryVars>>

NextLibrary ==
    \/ LoadLibrary
    \/ RunCommand

SpecLibrary == InitLibrary /\ [][NextLibrary]_vars

(***************************************************************************)
(* Properties of the creation of the sources.                              *)
(***************************************************************************)
Loaded == created # None

\* C22 as claimed: create_source ends in one of two ways for every url,
\* with a source or with UnsupportedURL, and it ends with a source for an
\* archive.org url of the shape details/<id>.
C22_TwoOutcomes ==
    Loaded =>
        /\ created[1].raises \in {"none", "UnsupportedURL"}
        /\ created[1].raises = "none" <=> created[1].source # None
        /\ configured_url = Scheme \o HostArchive \o PathOf(<<SegDetails, SegItem>>) =>
              created[1].raises = "none"

\* The part of C22 that holds: a command runs only after create_source
\* has returned a source, so that no command runs after any error of it.
C22_NoCommandAfterError ==
    commands # <<>> => Loaded /\ created[1].raises = "none" /\ created[1].source # None

(***************************************************************************)
(* The lookups of the extraction registry.                                 *)
(***************************************************************************)
\* The pieces the looked up file names are made of: a stem, the
\* registered suffixes in lower case, some in upper or mixed case, parts
\* of them, and suffixes that are not registered.
NamePieces ==
    << <<"a">>, Ext7z, ExtCab, ExtIma, ExtIso, ExtTarGz, ExtTar, ExtTgz, ExtZip, ExtVhd,
       <<".", "g", "z">>, <<".", "Z", "I", "P">>, <<".", "T", "a", "r", ".", "G", "z">>,
       <<".", "s", "i", "s">>, <<"z", "i", "p">> >>

InitRegistry ==
    /\ \E n \in 0..MaxPieces : \E which \in [1..n -> 1..Len(NamePieces)] :
        lookup_path = <<NameD, Flatten([i \in 1..n |-> NamePieces[which[i]]])>>
    /\ looked_up = None
    /\ WalkIdle
    /\ IndexIdle
    /\ IconIdle
    /\ OverlayIdle
    /\ SourceIdle

\* walk asks the registry for the method of a file.
Lookup ==
    /\ looked_up = None
    /\ looked_up' = Some(get_extraction_method(lookup_path))
    /\ UNCHANGED <<lookup_path, walkVars, indexVars, iconVars, overlayVars, sourceVars>>

NextRegistry == Lookup

SpecRegistry == InitRegistry /\ [][NextRegistry]_vars

\* The registered suffixes the lower-cased path ends with.
SuffixHits ==
    {i \in 1..Len(CONTAINER_MAPPING) :
        endswith(lower(PathStr(lookup_path)), CONTAINER_MAPPING[i][1])}

\* C23: the lookup returns no method exactly when the path, in lower
\* case, ends with no registered suffix; otherwise it returns the method
\* registered for the longest registered suffix the path ends with, which
\* is the method of every registered suffix the path ends with, so that
\* the suffix that comes first in the registry makes no difference.
C23_LongestSuffix ==
    looked_up # None =>
        /\ looked_up[1] = "None" <=> SuffixHits = {}
        /\ \A i \in SuffixHits :
              (\A j \in SuffixHits : Len(CONTAINER_MAPPING[i][1]) >= Len(CONTAINER_MAPPING[j][1]))
                  => looked_up[1] = CONTAINER_MAPPING[i][2]
        /\ \A i \in SuffixHits : looked_up[1] = CONTAINER_MAPPING[i][2]

\* A name that ends with ".tar.gz" in mixed case, after another
\* registered suffix, has been looked up.
C23_Witness ==
    /\ looked_up = Some("extract_tar_gz")
    /\ lookup_path[2] = ExtZip \o <<".", "T", "a", "r", ".", "G", "z">>

(***************************************************************************)
(* The scratch directories while the consumer holds a file.                *)
(***************************************************************************)
\* The scratch directories on disk, by their number of creation.
LiveScratch == {n \in 0..(ntmp - 1) : TemporaryDirectory(n) \in DOMAIN fs}

\* The consumer holds the file walk yielded last.
Held == status = "suspended"

\* The file the consumer holds is on disk, with the scratch directories
\* of all the open containers; the working directory is the scratch
\* directory of the innermost one, which holds the file.
HeldOnDisk ==
    LET leaf == yielded[Len(yielded)][1]
        open == OpenContainers
    IN  /\ exists(leaf)
        /\ ~isdir(leaf)
        /\ \A k \in 1..Len(open) : open[k].tmp \in DOMAIN fs
        /\ open # <<>> => cwd = open[Len(open)].tmp /\ IsPrefix(cwd, leaf)
        /\ open = <<>> => cwd = StartDirectory

\* No step removes a directory or changes the working directory while the
\* consumer holds a file; a scratch directory that is removed is the one
\* made last among those on disk, and one that is made is newer than all
\* of them.
ScratchLastInFirstOut ==
    /\ Held => DOMAIN fs' = DOMAIN fs /\ cwd' = cwd
    /\ \A r \in DOMAIN fs \ DOMAIN fs' :
          /\ LiveScratch # {}
          /\ r = TemporaryDirectory(CHOOSE n \in LiveScratch : \A m \in LiveScratch : m <= n)
    /\ \A r \in DOMAIN fs' \ DOMAIN fs :
          /\ r = TemporaryDirectory(ntmp)
          /\ \A m \in LiveScratch : m < ntmp

\* C24: while the consumer holds a file walk yielded, the file and the
\* scratch directories of all the containers it came through are on disk
\* and the working directory is unchanged; scratch directories are removed
\* only when the generator runs, last made first removed.
C24_LeafExistsWhileHeld ==
    /\ [](Held => HeldOnDisk)
    /\ [][ScratchLastInFirstOut]_vars

\* The consumer holds a file from a container inside a container, after
\* an earlier scratch directory was removed.
C24_Witness ==
    /\ Held
    /\ Len(OpenContainers) = 2
    /\ ntmp >= 3
    /\ Cardinality(LiveScratch) = 2

(***************************************************************************)
(* The files store and the releases index.                                 *)
(***************************************************************************)
\* The sha256 values of the releases of the releases index.
IndexedHashes == {releases_json[1][k].sha256 : k \in 1..Len(releases_json[1])}

\* C25 as claimed: once index has ended, the hashes staged in the files
\* store are exactly the sha256 values of the releases of the releases
\* index.
C25_StoreEqualsIndex == Indexed => files_directory = IndexedHashes

\* The part of C25 that holds: the file of every release is staged.
C25_ReleasesStaged == Indexed => IndexedHashes \subseteq files_directory

(***************************************************************************)
(* The summary and the Program list of one run of group.                   *)
(***************************************************************************)
\* The versions of the Program list, by program and position.
VersionPlaces ==
    {<<p, v>> \in (1..Len(programs)) \X (1..MaxAssets) : v <= Len(programs[p].versions)}

\* C26: in the summary group writes, installerCount is the number of
\* releases over all the variants of all the programs it writes, uidCount
\* the number of programs, versionCount the number of versions over all
\* programs, and shaCount the number of distinct sha256 values of the
\* releases; shaCount is at most the number of variants, and
\* uidCount <= versionCount <= installerCount.
C26_SummaryConsistent ==
    Grouped =>
        /\ summary[1].installerCount = Cardinality(ItemPlaces)
        /\ summary[1].uidCount = Len(programs)
        /\ summary[1].versionCount = Cardinality(VersionPlaces)
        /\ summary[1].shaCount
              = Cardinality({VariantAt(place[1]).items[place[2]].sha256 : place \in ItemPlaces})
        /\ summary[1].shaCount <= Cardinality(VariantPlaces)
        /\ summary[1].uidCount <= summary[1].versionCount
        /\ summary[1].versionCount <= summary[1].installerCount

\* group has written three releases of the same bytes under two programs
\* of one version each: one sha256 value, and two variants.
C26_Witness ==
    /\ Grouped
    /\ summary[1] = [installerCount |-> 3, uidCount |-> 2, versionCount |-> 2, shaCount |-> 1]
    /\ Cardinality(VariantPlaces) = 2

====
